---- MODULE Spec2Model ----
(***************************************************************************)
(* Escrow batching agent (Archive/src/agents/escrow_batching_agent.py).    *)
(*                                                                         *)
(* The five StableBTreeMap stores are the state.  Every canister method    *)
(* is one action: a call runs to completion, nested calls included         *)
(* (process_payment -> create_batch_for_merchant -> settle_batch).         *)
(*                                                                         *)
(* ic.time() is the time of the current round.  It is constant during a    *)
(* call and it does not have to differ between two calls, so the clock     *)
(* `now` advances in an action of its own (Tick).  Ids are built as the    *)
(* code builds them: a payment id from the clock and a hash bucket, a      *)
(* batch id from the merchant id and the clock.                            *)
(*                                                                         *)
(* Amounts are scaled: the code's default thresholds 100000000 and         *)
(* 10000000000 are modelled as 2 and 4.  Record fields that no operation   *)
(* reads and that hold no result (addresses, wallet, currency, creation    *)
(* timestamps, gas figures, schedule fields) are left out.                 *)
(*                                                                         *)
(* The source has no operation that writes settle_config_storage after     *)
(* canister_init; SetEmergencyPause is the pause/resume operation the      *)
(* design describes for the SettlementConfig singleton.                    *)
(***************************************************************************)
EXTENDS Integers, Sequences, FiniteSets, TLC

\* ---------------------------------------------------------------- bounds
MaxTime == 1            \* ic.time() ranges over 0..MaxTime
NumBuckets == 2         \* stands for the 10000 buckets of hash(...) % 10000
MaxAmount == 4          \* payment amounts are 1 (below every threshold) or MaxAmount
MaxOps == 3             \* number of calls in one behaviour, one merchant calling
MaxOpsTwo == 2          \* number of calls in one behaviour, two merchants calling
MaxBatches == 100       \* number of batches stored when the metrics are read
MaxRetryOps == 6        \* number of calls to the payment reliability agent
MaxSwapOps == 4         \* number of calls to the stablecoin swap agent

\* ------------------------------------------------------ program constants
MANTISSA_BITS == 53
BASIS_POINTS == 10000
DEFAULT_MIN_BATCH_AMOUNT == 2
DEFAULT_MAX_BATCH_AMOUNT == 4
MIN_PAYMENT_COUNT == 3
MAX_RETRIES == 3

Merchants == {"m1", "m2"}
Amounts == {1, MaxAmount}
Times == 0..MaxTime
HashBuckets == 0..(NumBuckets - 1)

\* An api key is the sequence of its "_"-separated words.
ApiKeys == { <<"ouro", "enterprise", "k">>,
             <<"ouro", "business", "k">>,
             <<"ouro", "free", "k">> }

\* payment_id = f"payment_{ic.time()}_{hash(str(payment_data)) % 10000}"
PaymentIds == Times \X HashBuckets
\* batch_id = f"batch_{merchant_id}_{ic.time()}"
BatchIds == Merchants \X Times

\* Opt[T]: None is the empty set, Opt(x) the singleton.
None == {}
Some(x) == {x}

VARIABLES
    merchant_configs_storage,   \* merchant_id -> MerchantConfig
    batch_payments_storage,     \* payment_id  -> BatchPayment
    batches_storage,            \* batch_id    -> Batch
    escrow_pdas_storage,        \* merchant_id -> EscrowPDA
    settle_config_storage,      \* "default"   -> SettleConfig
    now,                        \* ic.time()
    ret,                        \* the last call: its name, arguments, result
    settle_true_count,          \* batch_id -> number of settle_batch calls that returned True (saturates at 2)
    ops,                        \* number of calls made
    merchants,                  \* the merchant ids the callers use
    settling,                   \* the settle_batch call waiting at the connector, if any
    payments_storage,           \* payment reliability agent: payment_id -> PaymentMetrics
    recovery_strategies_storage, \* payment reliability agent: strategy_type -> RecoveryStrategy
    agent_config_storage,       \* payment reliability agent: key -> text
    retry_initiated_count,      \* payment_id -> number of retry_initiated results (saturates)
    supported_tokens_storage,   \* stablecoin swap agent: symbol -> StableCoinInfo
    swap_requests_storage,      \* stablecoin swap agent: request_id -> SwapRequest
    swap_config_storage,        \* stablecoin swap agent: "default" -> SwapConfig
    pause_held                  \* emergency_pause() returned true and no later call has lifted the pause by name

stores == <<merchant_configs_storage, batch_payments_storage, batches_storage,
            escrow_pdas_storage, settle_config_storage>>
vars == <<merchant_configs_storage, batch_payments_storage, batches_storage,
          escrow_pdas_storage, settle_config_storage, now, ret, settle_true_count, ops,
          merchants, settling,
          payments_storage, recovery_strategies_storage, agent_config_storage,
          retry_initiated_count,
          supported_tokens_storage, swap_requests_storage, swap_config_storage, pause_held>>

\* The state of the sibling agents, which the escrow batching agent never touches.
reliability == <<payments_storage, recovery_strategies_storage, agent_config_storage>>
swap == <<supported_tokens_storage, swap_requests_storage, swap_config_storage>>
siblings == <<payments_storage, recovery_strategies_storage, agent_config_storage,
              retry_initiated_count,
              supported_tokens_storage, swap_requests_storage, swap_config_storage, pause_held>>

\* ------------------------------------------------------------- helpers
Put(f, k, v) == [x \in (DOMAIN f) \cup {k} |-> IF x = k THEN v ELSE f[x]]

Max(a, b) == IF a >= b THEN a ELSE b

StartsWith(key, prefix) ==
    /\ Len(key) >= Len(prefix)
    /\ \A i \in 1..Len(prefix) : key[i] = prefix[i]

detect_api_tier(api_key) ==
    IF StartsWith(api_key, <<"ouro", "enterprise">>) THEN "enterprise"
    ELSE IF StartsWith(api_key, <<"ouro", "business">>) THEN "business"
    ELSE "free"

should_use_escrow(api_key) ==
    LET tier == detect_api_tier(api_key)
    IN  IF tier = "free" THEN FALSE
        ELSE IF tier \in {"business", "enterprise"} THEN TRUE
        ELSE FALSE

\* The stores a call reads and writes, as one record.
Stores == [cfg |-> merchant_configs_storage,
           pay |-> batch_payments_storage,
           bat |-> batches_storage,
           pda |-> escrow_pdas_storage]

RECURSIVE SumAmount(_, _)
SumAmount(pay, ids) ==
    IF ids = {} THEN 0
    ELSE LET p == CHOOSE x \in ids : TRUE
         IN  pay[p].amount + SumAmount(pay, ids \ {p})

RECURSIVE SumTotal(_, _)
SumTotal(bat, ids) ==
    IF ids = {} THEN 0
    ELSE LET b == CHOOSE x \in ids : TRUE
         IN  bat[b].total_amount + SumTotal(bat, ids \ {b})

\* Variant: a batch is formed from one pending payment at a time.
pending_payments_one_at_a_time(pay, merchant_id) ==
    LET all == {p \in DOMAIN pay : pay[p].merchant_id = merchant_id /\ pay[p].status = "pending"}
    IN  IF all = {} THEN {} ELSE {CHOOSE p \in all : TRUE}

pending_payments(pay, merchant_id) ==
    {p \in DOMAIN pay : pay[p].merchant_id = merchant_id /\ pay[p].status = "pending"}

\* Variant: the account is looked up but not created when absent.
create_or_get_escrow_pda_lookup_only(pda, merchant_id) == pda
create_or_get_escrow_pda(pda, merchant_id) ==
    IF merchant_id \in DOMAIN pda THEN pda
    ELSE Put(pda, merchant_id,
             [total_balance |-> 0, pending_batches |-> 0, last_settlement |-> None])

\* Variant: the maximum must be exceeded, not reached.
should_create_batch_strict_max(S, merchant_id) ==
    IF merchant_id \notin DOMAIN S.cfg \/ ~S.cfg[merchant_id].batching_enabled THEN FALSE
    ELSE LET pending == pending_payments(S.pay, merchant_id)
             total_amount == SumAmount(S.pay, pending)
         IN  IF Cardinality(pending) = 0 THEN FALSE
             ELSE IF total_amount < S.cfg[merchant_id].min_batch_amount THEN FALSE
             ELSE IF total_amount > S.cfg[merchant_id].max_batch_amount THEN TRUE
             ELSE Cardinality(pending) >= MIN_PAYMENT_COUNT

\* Variant: two pending payments already satisfy the count trigger.
should_create_batch_two_suffice(S, merchant_id) ==
    IF merchant_id \notin DOMAIN S.cfg \/ ~S.cfg[merchant_id].batching_enabled THEN FALSE
    ELSE LET pending == pending_payments(S.pay, merchant_id)
             total_amount == SumAmount(S.pay, pending)
         IN  IF Cardinality(pending) = 0 THEN FALSE
             ELSE IF total_amount < S.cfg[merchant_id].min_batch_amount THEN FALSE
             ELSE IF total_amount >= S.cfg[merchant_id].max_batch_amount THEN TRUE
             ELSE Cardinality(pending) >= MIN_PAYMENT_COUNT - 1
should_create_batch(S, merchant_id) ==
    IF merchant_id \notin DOMAIN S.cfg \/ ~S.cfg[merchant_id].batching_enabled THEN FALSE
    ELSE LET pending == pending_payments(S.pay, merchant_id)
             total_amount == SumAmount(S.pay, pending)
         IN  IF Cardinality(pending) = 0 THEN FALSE
             ELSE IF total_amount < S.cfg[merchant_id].min_batch_amount THEN FALSE
             ELSE IF total_amount >= S.cfg[merchant_id].max_batch_amount THEN TRUE
             ELSE Cardinality(pending) >= MIN_PAYMENT_COUNT

\* ------------------------------------------------------------ settle_batch
SettleTx(batch_id, t) == <<"settle_tx", batch_id[1], batch_id[2], t>>
DirectTx(payment_id) == <<"direct_tx", "-", payment_id[1], payment_id[2]>>

\* Variant: only an already settled batch is rejected.
batch_not_pending_settled_only(batch) == batch.status = "settled"

batch_not_pending(batch) == batch.status # "pending"

\* Variant: the pause flag is not consulted.
settle_paused_ignored(sc) == FALSE

settle_paused(sc) == "default" \in DOMAIN sc /\ sc["default"].emergency_pause

\* Variant: batch creation does not add the batch total to the balance.
credit_balance_not_added(balance, total_amount) == balance

\* Variant: the batch total is subtracted instead of added.
credit_balance_sign_slip(balance, total_amount) == balance - total_amount

credit_balance(balance, total_amount) == balance + total_amount

\* Variant: the settled amount is not taken off the balance.
debit_balance_not_taken(balance, amount) == Max(0, balance)
debit_balance(balance, amount) == Max(0, balance - amount)

\* Variant: the payment keeps its own transaction_hash.
settled_payment_keeps_hash(payment, final_batch) ==
    [payment EXCEPT !.status = "settled",
                    !.transaction_hash = payment.transaction_hash]

settled_payment(payment, final_batch) ==
    [payment EXCEPT !.status = "settled",
                    !.transaction_hash = final_batch.transaction_hash]

\* Variant: a failed settlement leaves the record as the first half wrote it.
failed_batch_left_processing(batch) ==
    [batch EXCEPT !.status = "processing"]
\* Variant: the failure is recorded without an error message.
failed_batch_no_message(batch) ==
    [batch EXCEPT !.status = "failed", !.transaction_hash = None]
failed_batch(batch) ==
    [batch EXCEPT !.status = "failed",
                  !.transaction_hash = None,
                  !.error_message = Some("Settlement transaction failed")]

\* Variant: the payment gets the batch_id but keeps its status.
batched_payment_status_kept(payment, batch_id) ==
    [payment EXCEPT !.batch_id = Some(batch_id)]
batched_payment(payment, batch_id) ==
    [payment EXCEPT !.status = "batched", !.batch_id = Some(batch_id)]

\* Variant: a failed settlement marks the batch's payments failed.
settle_failure_payments_marked(pay, batch_id) ==
    [p \in DOMAIN pay |->
        IF pay[p].batch_id = Some(batch_id)
        THEN [pay[p] EXCEPT !.status = "failed",
                            !.error_message = Some("Settlement transaction failed")]
        ELSE pay[p]]
\* The failure branch inserts the batch only: the payment store is as it was.
settle_failure_payments(pay, batch_id) == pay

\* Variant: every new batch is settled at once, whatever the configuration.
auto_settle_enabled_always(config) == TRUE
auto_settle_enabled(config) == config.auto_settle

NoSettle == [called |-> FALSE, bid |-> None, seen |-> "-", paused |-> FALSE,
             connector |-> "-", result |-> FALSE]

\* The first half of settle_batch, after its checks: the record is written
\* back with status processing and the settlement time.
settle_start(S, batch_id, t) ==
    LET batch == S.bat[batch_id]
        updated_batch == [batch EXCEPT !.settled_at = Some(t), !.status = "processing"]
    IN  [S EXCEPT !.bat = Put(S.bat, batch_id, updated_batch)]

\* The second half of settle_batch, from the outcome of the settlement on:
\* `batch` is the record the call read before its checks.
settle_finish(S1, batch_id, batch, success, t) ==
    IF success
    THEN LET final_batch == [batch EXCEPT !.status = "settled",
                                         !.transaction_hash = Some(SettleTx(batch_id, t)),
                                         !.error_message = None]
             S2 == [S1 EXCEPT !.bat = Put(S1.bat, batch_id, final_batch)]
             S3 == [S2 EXCEPT !.pay =
                      [p \in DOMAIN S2.pay |->
                          IF S2.pay[p].batch_id = Some(batch_id)
                          THEN settled_payment(S2.pay[p], final_batch)
                          ELSE S2.pay[p]]]
             merchant_id == batch.merchant_id
             S4 == IF merchant_id \in DOMAIN S3.pda
                   THEN LET pda == S3.pda[merchant_id]
                        IN [S3 EXCEPT !.pda = Put(S3.pda, merchant_id,
                             [pda EXCEPT
                                !.total_balance = debit_balance(pda.total_balance, batch.total_amount),
                                !.pending_batches = Max(0, pda.pending_batches - 1),
                                !.last_settlement = batch.settled_at])]
                   ELSE S3
         IN  [S |-> S4, info |-> [called |-> TRUE, bid |-> Some(batch_id), seen |-> batch.status,
                                  paused |-> FALSE, connector |-> "success", result |-> TRUE]]
    ELSE LET S2 == [S1 EXCEPT !.bat = Put(S1.bat, batch_id, failed_batch(batch)),
                              !.pay = settle_failure_payments(S1.pay, batch_id)]
         IN  [S |-> S2, info |-> [called |-> TRUE, bid |-> Some(batch_id), seen |-> batch.status,
                                  paused |-> FALSE, connector |-> "failure", result |-> FALSE]]

\* settle_batch as a function of the stores: the stores after the call, and
\* what the call saw and returned.
settle_batch(S, sc, batch_id, success, t) ==
    IF batch_id \notin DOMAIN S.bat
    THEN [S |-> S, info |-> [called |-> TRUE, bid |-> Some(batch_id), seen |-> "absent",
                             paused |-> FALSE, connector |-> "-", result |-> FALSE]]
    ELSE
    LET batch == S.bat[batch_id] IN
    IF batch_not_pending(batch)
    THEN [S |-> S, info |-> [called |-> TRUE, bid |-> Some(batch_id), seen |-> batch.status,
                             paused |-> FALSE, connector |-> "-", result |-> FALSE]]
    ELSE IF settle_paused(sc)
    THEN [S |-> S, info |-> [called |-> TRUE, bid |-> Some(batch_id), seen |-> batch.status,
                             paused |-> TRUE, connector |-> "-", result |-> FALSE]]
    ELSE settle_finish(settle_start(S, batch_id, t), batch_id, batch, success, t)

\* ----------------------------------------------- create_batch_for_merchant
create_batch_for_merchant(S, sc, merchant_id, success, t) ==
    IF merchant_id \notin DOMAIN S.cfg
    THEN [S |-> S, result |-> "merchant_not_found", batch |-> None, settle |-> NoSettle]
    ELSE
    LET config == S.cfg[merchant_id]
        pending == pending_payments(S.pay, merchant_id)
    IN
    IF Cardinality(pending) = 0
    THEN [S |-> S, result |-> "no_pending_payments", batch |-> None, settle |-> NoSettle]
    ELSE
    LET total_amount == SumAmount(S.pay, pending)
        batch_id == <<merchant_id, t>>
        batch == [merchant_id |-> merchant_id,
                  total_amount |-> total_amount,
                  payment_count |-> Cardinality(pending),
                  settled_at |-> None,
                  status |-> "pending",
                  transaction_hash |-> None,
                  error_message |-> None]
        S1 == [S EXCEPT !.bat = Put(S.bat, batch_id, batch)]
        S2 == [S1 EXCEPT !.pay =
                 [p \in DOMAIN S1.pay |->
                     IF p \in pending
                     THEN batched_payment(S1.pay[p], batch_id)
                     ELSE S1.pay[p]]]
        S3 == IF merchant_id \in DOMAIN S2.pda
              THEN LET pda == S2.pda[merchant_id]
                   IN [S2 EXCEPT !.pda = Put(S2.pda, merchant_id,
                        [pda EXCEPT
                           !.total_balance = credit_balance(pda.total_balance, total_amount),
                           !.pending_batches = pda.pending_batches + 1])]
              ELSE S2
    IN  IF auto_settle_enabled(config)
        THEN LET r == settle_batch(S3, sc, batch_id, success, t)
             IN  [S |-> r.S, result |-> "batch_id", batch |-> Some(batch_id), settle |-> r.info]
        ELSE [S |-> S3, result |-> "batch_id", batch |-> Some(batch_id), settle |-> NoSettle]

\* --------------------------------------------------------- process_payment
\* Variant: every new configuration has batching enabled.
default_config_batching_on(api_key) ==
    [batching_enabled |-> TRUE,
     min_batch_amount |-> DEFAULT_MIN_BATCH_AMOUNT,
     max_batch_amount |-> DEFAULT_MAX_BATCH_AMOUNT,
     auto_settle |-> TRUE]
default_config(api_key) ==
    [batching_enabled |-> should_use_escrow(api_key),
     min_batch_amount |-> DEFAULT_MIN_BATCH_AMOUNT,
     max_batch_amount |-> DEFAULT_MAX_BATCH_AMOUNT,
     auto_settle |-> TRUE]

process_payment(S, sc, api_key, merchant_id, amount, h, success, t) ==
    LET S1 == IF merchant_id \notin DOMAIN S.cfg
              THEN [S EXCEPT !.cfg = Put(S.cfg, merchant_id, default_config(api_key))]
              ELSE S
        payment_id == <<t, h>>
    IN  IF should_use_escrow(api_key)
        THEN LET S2 == [S1 EXCEPT !.pda = create_or_get_escrow_pda(S1.pda, merchant_id)]
                 payment == [merchant_id |-> merchant_id,
                             amount |-> amount,
                             status |-> "pending",
                             batch_id |-> None,
                             transaction_hash |-> None,
                             error_message |-> None]
                 S3 == [S2 EXCEPT !.pay = Put(S2.pay, payment_id, payment)]
             IN  IF should_create_batch(S3, merchant_id)
                 THEN LET r == create_batch_for_merchant(S3, sc, merchant_id, success, t)
                      IN  [S |-> r.S, result |-> "escrow_batched", pid |-> Some(payment_id),
                           batch |-> r.batch, settle |-> r.settle]
                 ELSE [S |-> S3, result |-> "escrow_batched", pid |-> Some(payment_id),
                       batch |-> None, settle |-> NoSettle]
        ELSE LET payment == [merchant_id |-> merchant_id,
                             amount |-> amount,
                             status |-> "settled",
                             batch_id |-> None,
                             transaction_hash |-> Some(DirectTx(payment_id)),
                             error_message |-> None]
                 S2 == [S1 EXCEPT !.pay = Put(S1.pay, payment_id, payment)]
             IN  [S |-> S2, result |-> "direct_settled", pid |-> Some(payment_id),
                  batch |-> None, settle |-> NoSettle]

\* -------------------------------------------------- update_merchant_config
\* config_data: a field is absent (None) or present (Some(v)).
NoData == [batching_enabled |-> None, min_batch_amount |-> None,
           max_batch_amount |-> None, auto_settle |-> None]

\* The calls made here set at most one field; no value is validated, so a
\* minimum above the maximum can be stored.
ConfigData ==
    {[NoData EXCEPT !.batching_enabled = Some(b)] : b \in BOOLEAN}
    \cup {[NoData EXCEPT !.auto_settle = Some(FALSE)]}
    \cup {[NoData EXCEPT !.min_batch_amount = Some(1)]}
    \cup {[NoData EXCEPT !.min_batch_amount = Some(DEFAULT_MAX_BATCH_AMOUNT + 1)]}
    \cup {[NoData EXCEPT !.max_batch_amount = Some(2)]}

\* dict.get(field, default)
Get(config_data, field, default) ==
    IF config_data[field] = None THEN default
    ELSE CHOOSE v \in config_data[field] : TRUE

\* Variant: an unknown merchant gets a configuration instead of a refusal.
update_merchant_config_upsert(S, merchant_id, config_data) ==
    LET existing_config == IF merchant_id \in DOMAIN S.cfg THEN S.cfg[merchant_id]
                           ELSE [batching_enabled |-> FALSE,
                                 min_batch_amount |-> DEFAULT_MIN_BATCH_AMOUNT,
                                 max_batch_amount |-> DEFAULT_MAX_BATCH_AMOUNT,
                                 auto_settle |-> TRUE]
        updated_config ==
          [batching_enabled |-> Get(config_data, "batching_enabled", existing_config.batching_enabled),
           min_batch_amount |-> Get(config_data, "min_batch_amount", existing_config.min_batch_amount),
           max_batch_amount |-> Get(config_data, "max_batch_amount", existing_config.max_batch_amount),
           auto_settle |-> Get(config_data, "auto_settle", existing_config.auto_settle)]
    IN  [S |-> [S EXCEPT !.cfg = Put(S.cfg, merchant_id, updated_config)], result |-> TRUE]

update_merchant_config(S, merchant_id, config_data) ==
    IF merchant_id \notin DOMAIN S.cfg
    THEN [S |-> S, result |-> FALSE]
    ELSE LET existing_config == S.cfg[merchant_id]
             updated_config ==
               [batching_enabled |-> Get(config_data, "batching_enabled", existing_config.batching_enabled),
                min_batch_amount |-> Get(config_data, "min_batch_amount", existing_config.min_batch_amount),
                max_batch_amount |-> Get(config_data, "max_batch_amount", existing_config.max_batch_amount),
                auto_settle |-> Get(config_data, "auto_settle", existing_config.auto_settle)]
         IN  [S |-> [S EXCEPT !.cfg = Put(S.cfg, merchant_id, updated_config)], result |-> TRUE]

\* --------------------------------------------------------------- queries
\* A query returns a value and, like every call, the stores it leaves.
get_merchant_config(S, merchant_id) ==
    [S |-> S,
     out |-> IF merchant_id \in DOMAIN S.cfg THEN Some(S.cfg[merchant_id]) ELSE None]

get_merchant_batches(S, merchant_id) ==
    LET ids == {b \in DOMAIN S.bat : S.bat[b].merchant_id = merchant_id}
    IN  [S |-> S, out |-> Some([b \in ids |-> S.bat[b]])]

\* Variant: the balance is read through create_or_get_escrow_pda.
get_escrow_balance_creating(S, merchant_id) ==
    LET pda == create_or_get_escrow_pda(S.pda, merchant_id)
    IN  [S |-> [S EXCEPT !.pda = pda], out |-> Some(pda[merchant_id].total_balance)]
get_escrow_balance(S, merchant_id) ==
    [S |-> S,
     out |-> Some(IF merchant_id \in DOMAIN S.pda THEN S.pda[merchant_id].total_balance
                  ELSE 0)]

\* ------------------------------------------------- get_batching_metrics
\* success_rate = int((settled_batches / max(1, total_batches)) * 10000) is
\* computed in binary floating point: the quotient and the product are each
\* rounded to MANTISSA_BITS significant bits (round half to even), then the
\* fraction is cut off.  A float is zero, or its significant bits (most
\* significant first, the first being 1) with the binary exponent of the
\* first bit.
FloatZero == [bits |-> <<>>, exp |-> 0]

Front(s) == SubSeq(s, 1, Len(s) - 1)

Last(s) == s[Len(s)]

RECURSIVE Pow2(_)
Pow2(n) == IF n = 0 THEN 1 ELSE 2 * Pow2(n - 1)

\* Binary digits of a natural number, most significant first (none for 0).
RECURSIVE Binary(_)
Binary(n) == IF n = 0 THEN <<>> ELSE Binary(n \div 2) \o <<n % 2>>

\* bits + 1; one bit longer when every bit was 1.
IncBits(b) ==
    LET zeros == {i \in 1..Len(b) : b[i] = 0}
    IN  IF zeros = {} THEN <<1>> \o [i \in 1..Len(b) |-> 0]
        ELSE LET j == CHOOSE i \in zeros : \A k \in zeros : k <= i
             IN  [i \in 1..Len(b) |-> IF i < j THEN b[i] ELSE IF i = j THEN 1 ELSE 0]

\* Round half to even: bits are the kept significant bits, half and rest say
\* how the discarded part compares with half a unit in the last place.
float_round(bits, exp, above_half, exactly_half) ==
    LET up == above_half \/ (exactly_half /\ Last(bits) = 1)
        inc == IncBits(bits)
    IN  IF ~up THEN [bits |-> bits, exp |-> exp]
        ELSE IF Len(inc) > Len(bits) THEN [bits |-> Front(inc), exp |-> exp + 1]
        ELSE [bits |-> inc, exp |-> exp]

\* Number of doublings of s needed to reach t.
RECURSIVE Doublings(_, _)
Doublings(s, t) == IF s >= t THEN 0 ELSE 1 + Doublings(2 * s, t)

\* Long division: the next n binary digits of r / t (r < t), and the
\* remainder left after them.
DivDigits(r, t, n) ==
    LET rem[i \in 0..n] == IF i = 0 THEN r ELSE (2 * rem[i - 1]) % t
    IN  [bits |-> [i \in 1..n |-> (2 * rem[i - 1]) \div t], rem |-> rem[n]]

\* s / t for naturals 0 <= s <= t, t > 0, correctly rounded.
float_div(s, t) ==
    IF s = 0 THEN FloatZero
    ELSE LET k == Doublings(s, t)
             q == DivDigits(s * Pow2(k) - t, t, MANTISSA_BITS - 1)
         IN  float_round(<<1>> \o q.bits, -k, 2 * q.rem > t, 2 * q.rem = t)

\* bits * c, exactly: digit by digit from the last bit, with the carry.
MulBits(b, c) ==
    LET n == Len(b)
        carry[i \in 0..n] ==
            IF i = 0 THEN 0 ELSE (b[n + 1 - i] * c + carry[i - 1]) \div 2
    IN  Binary(carry[n]) \o [k \in 1..n |-> (b[k] * c + carry[n - k]) % 2]

AnyOne(b) == \E i \in 1..Len(b) : b[i] = 1

\* x * c for a natural c > 0, correctly rounded.
float_mul(x, c) ==
    IF x.bits = <<>> THEN FloatZero
    ELSE LET p == MulBits(x.bits, c)
             extra == Len(p) - MANTISSA_BITS
             kept == SubSeq(p, 1, MANTISSA_BITS)
             cut == SubSeq(p, MANTISSA_BITS + 1, Len(p))
         IN  IF extra = 0 THEN [bits |-> p, exp |-> x.exp]
             ELSE float_round(kept, x.exp + extra,
                              cut[1] = 1 /\ AnyOne(SubSeq(cut, 2, Len(cut))),
                              cut[1] = 1 /\ ~AnyOne(SubSeq(cut, 2, Len(cut))))

\* int(x) for x >= 0: the bits of weight 2^0 and above.
RECURSIVE BitsValue(_)
BitsValue(b) == IF b = <<>> THEN 0 ELSE 2 * BitsValue(Front(b)) + Last(b)

float_to_int(x) ==
    IF x.bits = <<>> \/ x.exp < 0 THEN 0
    ELSE BitsValue(SubSeq(x.bits, 1, x.exp + 1))

\* Variant: the divisor is the batch count itself.
metrics_divisor_unguarded(total_batches) == total_batches
metrics_divisor(total_batches) == Max(1, total_batches)

\* get_batching_metrics; a division by zero ends the call with an error.
get_batching_metrics(S) ==
    LET all_batches == DOMAIN S.bat
        total_batches == Cardinality(all_batches)
        settled_batches == Cardinality({b \in all_batches : S.bat[b].status = "settled"})
        total_volume == SumTotal(S.bat, all_batches)
        pending_volume ==
            SumTotal(S.bat, {b \in all_batches : S.bat[b].status = "pending"})
        divisor == metrics_divisor(total_batches)
        active_merchants == Cardinality({m \in DOMAIN S.cfg : S.cfg[m].batching_enabled})
    IN  IF divisor = 0
        THEN [S |-> S,
              out |-> Some([error |-> "ZeroDivisionError",
                            total_batches_processed |-> total_batches,
                            total_volume_batched |-> total_volume,
                            average_batch_size |-> 0,
                            merchants_active |-> active_merchants,
                            pending_amount |-> pending_volume,
                            settlement_success_rate |-> 0])]
        ELSE [S |-> S,
              out |-> Some([error |-> "-",
                            total_batches_processed |-> total_batches,
                            total_volume_batched |-> total_volume,
                            average_batch_size |-> total_volume \div divisor,
                            merchants_active |-> active_merchants,
                            pending_amount |-> pending_volume,
                            settlement_success_rate |->
                                float_to_int(float_mul(float_div(settled_batches, divisor),
                                                       BASIS_POINTS))])]

\* ================================================ payment reliability agent
\* payment_id = f"payment_{ic.time()}"
ReliabilityPaymentIds == Times
UnknownPaymentId == MaxTime + 1
Subscriptions == {"s1", "s2"}
UnknownStrategy == "no_such_strategy"
StrategyTypes == {"gas_optimization", "user_notification", UnknownStrategy}

\* initialize_recovery_strategies: the three default strategies.
DefaultRecoveryStrategies ==
    [k \in {"gas_optimization", "timing_adjustment", "user_notification"} |->
        [strategy_type |-> k,
         new_gas_price |-> IF k = "gas_optimization" THEN Some(30000)
                           ELSE IF k = "timing_adjustment" THEN Some(25000)
                           ELSE None]]

DefaultAgentConfig ==
    [k \in {"agentverse_info", "is_monitoring"} |->
        IF k = "is_monitoring" THEN "false" ELSE "AGENTVERSE_INFO"]

start_monitoring(config) == Put(config, "is_monitoring", "true")

stop_monitoring(config) == Put(config, "is_monitoring", "false")

\* register_payment: the stores after the call and the id returned.
register_payment(payments, config, subscription_id, t) ==
    LET payment_id == t
        payment == [subscription_id |-> subscription_id,
                    status |-> "pending",
                    failure_reason |-> None,
                    gas_price |-> None,
                    retry_count |-> 0,
                    recovery_strategy |-> None]
        is_monitoring == IF "is_monitoring" \in DOMAIN config
                         THEN Some(config["is_monitoring"]) ELSE None
    IN  [payments |-> Put(payments, payment_id, payment),
         config |-> IF is_monitoring = None \/ is_monitoring = Some("false")
                    THEN start_monitoring(config) ELSE config,
         result |-> payment_id]

max_retries_exceeded(retry_count) == retry_count > MAX_RETRIES

\* execute_intelligent_retry: the payment store after the call and the result
\* (the strategy named in a retry_initiated_with_<strategy> result is the
\* strategy_type argument).
execute_intelligent_retry(payments, strategies, payment_id, strategy_type) ==
    IF payment_id \notin DOMAIN payments
    THEN [payments |-> payments, result |-> "payment_not_found"]
    ELSE IF strategy_type \notin DOMAIN strategies
    THEN [payments |-> payments, result |-> "invalid_strategy"]
    ELSE
    LET payment == payments[payment_id]
        strategy == strategies[strategy_type]
        updated_payment ==
            [payment EXCEPT !.status = "retrying",
                            !.gas_price = IF strategy.new_gas_price # None
                                          THEN strategy.new_gas_price ELSE payment.gas_price,
                            !.retry_count = payment.retry_count + 1,
                            !.recovery_strategy = Some(strategy_type)]
    IN  IF max_retries_exceeded(updated_payment.retry_count)
        THEN LET final_payment ==
                    [updated_payment EXCEPT !.status = "failed",
                                            !.failure_reason = Some("max_retries_exceeded")]
             IN  [payments |-> Put(payments, payment_id, final_payment),
                  result |-> "max_retries_exceeded"]
        ELSE [payments |-> Put(payments, payment_id, updated_payment),
              result |-> "retry_initiated"]

\* ==================================================== stablecoin swap agent
\* swap_data of a swap_to_usdc call: a token that is active, one that is
\* stored but inactive and one that is not stored; an amount below the
\* minimum, one within the limits and one above the maximum.
SwapTokens == {"USDT", "UST", "XYZ"}
SwapAmounts == {999999, 1000000, 1000000001}

\* initialize_supported_tokens: the stored tokens (DAI and FRAX are stored
\* too; they differ from USDT in their 18-decimal limits only).
DefaultSupportedTokens ==
    [k \in {"USDT", "UST"} |->
        [symbol |-> k,
         is_active |-> (k = "USDT"),
         min_swap_amount |-> 1000000,
         max_swap_amount |-> 1000000000]]

DEFAULT_CONFIG == [default_slippage |-> 300, emergency_pause |-> FALSE]

DefaultSwapConfig == [k \in {"default"} |-> DEFAULT_CONFIG]

\* new_config of an update_config call: each key present or not.
NewConfigs ==
    [default_slippage : {None, Some(500)},
     emergency_pause : {None, Some(TRUE), Some(FALSE)}]

\* update_config: every key is taken from new_config or from a fixed default.
update_config(swap_config, new_config) ==
    Put(swap_config, "default",
        [default_slippage |-> Get(new_config, "default_slippage", 300),
         emergency_pause |-> Get(new_config, "emergency_pause", FALSE)])

\* emergency_pause and resume_operations: the store after the call, the result.
emergency_pause(swap_config) ==
    IF "default" \in DOMAIN swap_config
    THEN [config |-> Put(swap_config, "default",
                         [swap_config["default"] EXCEPT !.emergency_pause = TRUE]),
          result |-> TRUE]
    ELSE [config |-> swap_config, result |-> FALSE]

resume_operations(swap_config) ==
    IF "default" \in DOMAIN swap_config
    THEN [config |-> Put(swap_config, "default",
                         [swap_config["default"] EXCEPT !.emergency_pause = FALSE]),
          result |-> TRUE]
    ELSE [config |-> swap_config, result |-> FALSE]

\* find_best_swap_routes for USDT -> USDC: expected_output is
\* int(amount * 1.0001 * 0.999) on jupiter and int(amount * 1.0001 * 0.998) on
\* raydium; the values are those of the one drawn amount within the limits.
find_best_swap_routes(input_token, amount) ==
    IF amount = 1000000
    THEN {[dex_name |-> "jupiter", expected_output |-> 999099],
          [dex_name |-> "raydium", expected_output |-> 998099]}
    ELSE {}

\* execute_swap: the request is rewritten as completed or failed.
execute_swap(requests, request_id, route, success, variance, t) ==
    IF request_id \notin DOMAIN requests THEN requests
    ELSE LET request == requests[request_id] IN
         IF success
         THEN Put(requests, request_id,
                  [request EXCEPT !.expected_output = route.expected_output - variance,
                                  !.status = "completed",
                                  !.completed_at = Some(t),
                                  !.transaction_hash = Some(<<"swap_tx", request_id, t>>),
                                  !.error_message = None])
         ELSE Put(requests, request_id,
                  [request EXCEPT !.status = "failed",
                                  !.completed_at = Some(t),
                                  !.transaction_hash = None,
                                  !.error_message = Some("Insufficient liquidity")])

\* swap_to_usdc: the request store after the call and the result.
swap_to_usdc(requests, swap_config, tokens, input_token, input_amount, slippage_given, h, success, variance, t) ==
    IF "default" \notin DOMAIN swap_config \/ swap_config["default"].emergency_pause
    THEN [requests |-> requests, result |-> "swap_paused", id |-> None]
    ELSE
    LET config == swap_config["default"]
        slippage == IF slippage_given = None THEN config.default_slippage
                    ELSE CHOOSE v \in slippage_given : TRUE
    IN
    IF input_token \notin DOMAIN tokens \/ ~tokens[input_token].is_active
    THEN [requests |-> requests, result |-> "unsupported_token", id |-> None]
    ELSE IF input_amount < tokens[input_token].min_swap_amount
    THEN [requests |-> requests, result |-> "amount_too_small", id |-> None]
    ELSE IF input_amount > tokens[input_token].max_swap_amount
    THEN [requests |-> requests, result |-> "amount_too_large", id |-> None]
    ELSE
    LET request_id == <<t, h>>
        routes == find_best_swap_routes(input_token, input_amount)
    IN
    IF routes = {}
    THEN [requests |-> requests, result |-> "no_routes_available", id |-> None]
    ELSE
    LET best_route == CHOOSE r \in routes :
                          \A o \in routes : o.expected_output <= r.expected_output
        swap_request == [input_token |-> input_token,
                         input_amount |-> input_amount,
                         expected_output |-> best_route.expected_output,
                         slippage_tolerance |-> slippage,
                         status |-> "pending",
                         completed_at |-> None,
                         transaction_hash |-> None,
                         error_message |-> None]
        stored == Put(requests, request_id, swap_request)
    IN  [requests |-> execute_swap(stored, request_id, best_route, success, variance, t),
         result |-> "request_id", id |-> Some(request_id)]

\* The stablecoin swap agent after its canister_init.
SwapInit ==
    /\ supported_tokens_storage = DefaultSupportedTokens
    /\ swap_requests_storage = <<>>
    /\ swap_config_storage = DefaultSwapConfig
    /\ pause_held = FALSE

\* The sibling agents after their canister_init.
SiblingsInit ==
    /\ payments_storage = <<>>
    /\ recovery_strategies_storage = DefaultRecoveryStrategies
    /\ agent_config_storage = DefaultAgentConfig
    /\ retry_initiated_count = [p \in ReliabilityPaymentIds |-> 0]
    /\ SwapInit

\* ------------------------------------------------------------------ state
DEFAULT_SETTLE_CONFIG == [emergency_pause |-> FALSE]

NoCall == [op |-> "none", merchant |-> None, tier |-> "-", result |-> "-", pid |-> None,
           batch |-> None, settle |-> NoSettle, out |-> None]

Init ==
    /\ merchant_configs_storage = <<>>
    /\ batch_payments_storage = <<>>
    /\ batches_storage = <<>>
    /\ escrow_pdas_storage = <<>>
    /\ settle_config_storage = [k \in {"default"} |-> DEFAULT_SETTLE_CONFIG]
    /\ now = 0
    /\ ret = NoCall
    /\ settle_true_count = [b \in BatchIds |-> 0]
    /\ ops = 0
    /\ merchants = {"m1"}
    /\ settling = None
    /\ SiblingsInit

\* The same canister, called on behalf of two merchants.
InitTwo ==
    /\ merchant_configs_storage = <<>>
    /\ batch_payments_storage = <<>>
    /\ batches_storage = <<>>
    /\ escrow_pdas_storage = <<>>
    /\ settle_config_storage = [k \in {"default"} |-> DEFAULT_SETTLE_CONFIG]
    /\ now = 0
    /\ ret = NoCall
    /\ settle_true_count = [b \in BatchIds |-> 0]
    /\ ops = 0
    /\ merchants = Merchants
    /\ settling = None
    /\ SiblingsInit

\* The canister after four calls at clock 0: merchant m1 submits a payment of
\* 1, switches auto_settle off and has its pending payment batched, so that m1
\* holds one pending batch; merchant m2 submits a payment whose batch fails to
\* settle, so that m2 holds a balance.
InitialSettleConfig == [k \in {"default"} |-> DEFAULT_SETTLE_CONFIG]

OpenStores1 ==
    process_payment([cfg |-> <<>>, pay |-> <<>>, bat |-> <<>>, pda |-> <<>>],
                    InitialSettleConfig, <<"ouro", "business", "k">>, "m1",
                    1, 0, TRUE, 0).S

OpenStores2 ==
    update_merchant_config(OpenStores1, "m1",
                           [NoData EXCEPT !.auto_settle = Some(FALSE)]).S

OpenStores3 ==
    create_batch_for_merchant(OpenStores2, InitialSettleConfig, "m1", TRUE, 0).S

OpenStores ==
    process_payment(OpenStores3, InitialSettleConfig, <<"ouro", "business", "k">>, "m2",
                    MaxAmount, 1, FALSE, 0).S

InitOpen ==
    /\ merchant_configs_storage = OpenStores.cfg
    /\ batch_payments_storage = OpenStores.pay
    /\ batches_storage = OpenStores.bat
    /\ escrow_pdas_storage = OpenStores.pda
    /\ settle_config_storage = [k \in {"default"} |-> DEFAULT_SETTLE_CONFIG]
    /\ now = 0
    /\ ret = NoCall
    /\ settle_true_count = [b \in BatchIds |-> 0]
    /\ ops = 0
    /\ merchants = Merchants
    /\ settling = None
    /\ SiblingsInit

Commit(S) ==
    /\ merchant_configs_storage' = S.cfg
    /\ batch_payments_storage' = S.pay
    /\ batches_storage' = S.bat
    /\ escrow_pdas_storage' = S.pda

Count(info) ==
    settle_true_count' =
        [b \in BatchIds |->
            IF info.called /\ info.result /\ info.bid = Some(b)
            THEN (IF settle_true_count[b] >= 2 THEN 2 ELSE settle_true_count[b] + 1)
            ELSE settle_true_count[b]]

Called ==
    /\ ops < (IF Cardinality(merchants) = 1 THEN MaxOps ELSE MaxOpsTwo)
    /\ ops' = ops + 1
    /\ UNCHANGED <<merchants, settling, siblings>>

\* ---------------------------------------------------------------- actions
Tick ==
    /\ now < MaxTime
    /\ now' = now + 1
    /\ UNCHANGED <<stores, ret, settle_true_count, ops, merchants, settling, siblings>>

\* The bucket of a payment matters only through equality with the buckets of
\* the stored ids of the same round, so buckets are numbered in the order of
\* their first use in a round: a call hits a bucket already used in this
\* round (it repeats the id) or the first unused one.
BucketsInUse(t) == {g \in HashBuckets : <<t, g>> \in DOMAIN batch_payments_storage}

NextBuckets(t) == {h \in HashBuckets : \A g \in HashBuckets : g < h => g \in BucketsInUse(t)}

ProcessPayment ==
    \E api_key \in ApiKeys, merchant_id \in merchants, amount \in Amounts,
       h \in NextBuckets(now), success \in BOOLEAN :
        LET r == process_payment(Stores, settle_config_storage, api_key, merchant_id,
                                   amount, h, success, now) IN
            /\ Called
            /\ Commit(r.S)
            /\ ret' = [op |-> "process_payment", merchant |-> Some(merchant_id),
                       tier |-> detect_api_tier(api_key), result |-> r.result, pid |-> r.pid, batch |-> r.batch,
                       settle |-> r.settle, out |-> None]
            /\ Count(r.settle)
            /\ UNCHANGED <<settle_config_storage, now>>

TriggerBatchCreation ==
    \E merchant_id \in merchants, success \in BOOLEAN :
        LET r == create_batch_for_merchant(Stores, settle_config_storage, merchant_id,
                                             success, now) IN
            /\ Called
            /\ Commit(r.S)
            /\ ret' = [op |-> "create_batch_for_merchant", merchant |-> Some(merchant_id),
                       tier |-> "-", result |-> r.result, pid |-> None, batch |-> r.batch,
                       settle |-> r.settle, out |-> None]
            /\ Count(r.settle)
            /\ UNCHANGED <<settle_config_storage, now>>

SettleBatch ==
    \E batch_id \in merchants \X Times, success \in BOOLEAN :
        LET r == settle_batch(Stores, settle_config_storage, batch_id, success, now) IN
            /\ Called
            /\ Commit(r.S)
            /\ ret' = [op |-> "settle_batch", merchant |-> None, tier |-> "-",
                       result |-> IF r.info.result THEN "true" ELSE "false",
                       pid |-> None, batch |-> None, settle |-> r.info, out |-> None]
            /\ Count(r.info)
            /\ UNCHANGED <<settle_config_storage, now>>

UpdateMerchantConfig ==
    \E merchant_id \in merchants, config_data \in ConfigData :
        LET r == update_merchant_config(Stores, merchant_id, config_data) IN
            /\ Called
            /\ Commit(r.S)
            /\ ret' = [op |-> "update_merchant_config", merchant |-> Some(merchant_id),
                       tier |-> "-", result |-> IF r.result THEN "true" ELSE "false",
                       pid |-> None, batch |-> None, settle |-> NoSettle, out |-> None]
            /\ UNCHANGED <<settle_config_storage, now, settle_true_count>>

\* The pause/resume operation of the SettlementConfig singleton.
SetEmergencyPause ==
    \E paused \in BOOLEAN :
        /\ Called
        /\ settle_config_storage' =
              [settle_config_storage EXCEPT !["default"].emergency_pause = paused]
        /\ ret' = [op |-> "set_emergency_pause", merchant |-> None, tier |-> "-",
                   result |-> "true",
                   pid |-> None, batch |-> None, settle |-> NoSettle, out |-> None]
        /\ UNCHANGED <<merchant_configs_storage, batch_payments_storage, batches_storage,
                       escrow_pdas_storage, now, settle_true_count>>

Next ==
    \/ Tick
    \/ ProcessPayment
    \/ TriggerBatchCreation
    \/ SettleBatch
    \/ UpdateMerchantConfig
    \/ SetEmergencyPause

Spec == Init /\ [][Next]_vars

SpecTwo == InitTwo /\ [][Next]_vars

SpecOpen == InitOpen /\ [][Next]_vars

\* ---------------------------------------------------------- query actions
GetMerchantConfig ==
    \E merchant_id \in merchants :
        LET r == get_merchant_config(Stores, merchant_id) IN
            /\ Called
            /\ Commit(r.S)
            /\ ret' = [op |-> "get_merchant_config", merchant |-> Some(merchant_id),
                       tier |-> "-", result |-> "-", pid |-> None, batch |-> None,
                       settle |-> NoSettle, out |-> r.out]
            /\ UNCHANGED <<settle_config_storage, now, settle_true_count>>

GetBatchingMetrics ==
    LET r == get_batching_metrics(Stores) IN
        /\ Called
        /\ Commit(r.S)
        /\ ret' = [op |-> "get_batching_metrics", merchant |-> None,
                   tier |-> "-", result |-> "-", pid |-> None, batch |-> None,
                   settle |-> NoSettle, out |-> r.out]
        /\ UNCHANGED <<settle_config_storage, now, settle_true_count>>

GetMerchantBatches ==
    \E merchant_id \in merchants :
        LET r == get_merchant_batches(Stores, merchant_id) IN
            /\ Called
            /\ Commit(r.S)
            /\ ret' = [op |-> "get_merchant_batches", merchant |-> Some(merchant_id),
                       tier |-> "-", result |-> "-", pid |-> None, batch |-> None,
                       settle |-> NoSettle, out |-> r.out]
            /\ UNCHANGED <<settle_config_storage, now, settle_true_count>>

GetEscrowBalance ==
    \E merchant_id \in merchants :
        LET r == get_escrow_balance(Stores, merchant_id) IN
            /\ Called
            /\ Commit(r.S)
            /\ ret' = [op |-> "get_escrow_balance", merchant |-> Some(merchant_id),
                       tier |-> "-", result |-> "-", pid |-> None, batch |-> None,
                       settle |-> NoSettle, out |-> r.out]
            /\ UNCHANGED <<settle_config_storage, now, settle_true_count>>

\* Updates and queries, two merchants calling, from the empty canister or
\* from the canister holding a pending batch.
InitQuery == InitTwo \/ InitOpen

NextQuery ==
    \/ Next
    \/ GetMerchantConfig
    \/ GetBatchingMetrics
    \/ GetMerchantBatches
    \/ GetEscrowBalance

SpecQuery == InitQuery /\ [][NextQuery]_vars

\* ------------------------------------------- settle_batch with a yield
\* settle_batch split at the settlement execution (the connector call of the
\* specification): the call runs its checks and writes the processing
\* record, other calls may run, then the call resumes with the outcome.
SettleBegin ==
    \E batch_id \in merchants \X Times :
        /\ settling = None
        /\ ops < MaxOpsTwo
        /\ batch_id \in DOMAIN batches_storage
        /\ ~batch_not_pending(batches_storage[batch_id])
        /\ ~settle_paused(settle_config_storage)
        /\ Commit(settle_start(Stores, batch_id, now))
        /\ settling' = Some([batch_id |-> batch_id, batch |-> batches_storage[batch_id]])
        /\ ops' = ops + 1
        /\ UNCHANGED <<settle_config_storage, now, ret, settle_true_count, merchants, siblings>>

SettleEnd ==
    \E call \in settling, success \in BOOLEAN :
        LET r == settle_finish(Stores, call.batch_id, call.batch, success, now) IN
            /\ Commit(r.S)
            /\ ret' = [op |-> "settle_batch", merchant |-> None, tier |-> "-",
                       result |-> IF r.info.result THEN "true" ELSE "false",
                       pid |-> None, batch |-> None, settle |-> r.info, out |-> None]
            /\ Count(r.info)
            /\ settling' = None
            /\ UNCHANGED <<settle_config_storage, now, ops, merchants, siblings>>

\* The calls that may run while a settlement waits; no payment comes in.
NextInterleave ==
    \/ Tick
    \/ SettleBegin
    \/ SettleEnd
    \/ SettleBatch
    \/ TriggerBatchCreation
    \/ UpdateMerchantConfig
    \/ SetEmergencyPause
    \/ GetMerchantBatches

SpecInterleave == InitOpen /\ [][NextInterleave]_vars

\* ------------------------------------------------ metrics on many batches
\* The stores after t rounds at clock values 1..t: in each round merchant m1
\* submitted one payment of max_batch_amount with a business key, the batch
\* was created and settled at once; the settlements of the first s rounds
\* succeeded, the others failed.
MetricsBatchRecord(i, s) ==
    LET batch == [merchant_id |-> "m1",
                  total_amount |-> DEFAULT_MAX_BATCH_AMOUNT,
                  payment_count |-> 1,
                  settled_at |-> None,
                  status |-> "pending",
                  transaction_hash |-> None,
                  error_message |-> None]
    IN  IF i <= s
        THEN [batch EXCEPT !.status = "settled",
                           !.transaction_hash = Some(SettleTx(<<"m1", i>>, i)),
                           !.error_message = None]
        ELSE failed_batch(batch)

MetricsPaymentRecord(i, s) ==
    LET payment == [merchant_id |-> "m1",
                    amount |-> DEFAULT_MAX_BATCH_AMOUNT,
                    status |-> "pending",
                    batch_id |-> None,
                    transaction_hash |-> None,
                    error_message |-> None]
        batched == batched_payment(payment, <<"m1", i>>)
    IN  IF i <= s THEN settled_payment(batched, MetricsBatchRecord(i, s)) ELSE batched

MetricsStores(t, s) ==
    [cfg |-> [m \in {"m1"} |-> default_config(<<"ouro", "business", "k">>)],
     pay |-> [p \in {<<i, 0>> : i \in 1..t} |-> MetricsPaymentRecord(p[1], s)],
     bat |-> [b \in {<<"m1", i>> : i \in 1..t} |-> MetricsBatchRecord(b[2], s)],
     pda |-> [m \in {"m1"} |->
                [total_balance |-> (t - s) * DEFAULT_MAX_BATCH_AMOUNT,
                 pending_batches |-> t - s,
                 last_settlement |-> None]]]

InitMetrics ==
    \E t \in 0..MaxBatches :
        \E s \in 0..t :
            /\ merchant_configs_storage = MetricsStores(t, s).cfg
            /\ batch_payments_storage = MetricsStores(t, s).pay
            /\ batches_storage = MetricsStores(t, s).bat
            /\ escrow_pdas_storage = MetricsStores(t, s).pda
            /\ settle_config_storage = [k \in {"default"} |-> DEFAULT_SETTLE_CONFIG]
            /\ now = t
            /\ ret = NoCall
            /\ settle_true_count = [b \in BatchIds |-> 0]
            /\ ops = 0
            /\ merchants = Merchants
            /\ settling = None
            /\ SiblingsInit

NextMetrics == GetBatchingMetrics

SpecMetrics == InitMetrics /\ [][NextMetrics]_vars

\* ------------------------------------- payment reliability agent: actions
\* A call to the payment reliability agent: the escrow batching agent is idle.
ReliabilityCalled ==
    /\ ops < MaxRetryOps
    /\ ops' = ops + 1
    /\ UNCHANGED <<stores, now, settle_true_count, merchants, settling,
                   recovery_strategies_storage, swap, pause_held>>

RegisterPayment ==
    \E subscription_id \in Subscriptions :
        LET r == register_payment(payments_storage, agent_config_storage, subscription_id, now) IN
            /\ ReliabilityCalled
            /\ payments_storage' = r.payments
            /\ agent_config_storage' = r.config
            /\ ret' = [op |-> "register_payment", merchant |-> None, tier |-> "-",
                       result |-> "registered", pid |-> Some(r.result), batch |-> None,
                       settle |-> NoSettle, out |-> None]
            /\ UNCHANGED retry_initiated_count

ExecuteIntelligentRetry ==
    \E payment_id \in ReliabilityPaymentIds \cup {UnknownPaymentId},
       strategy_type \in StrategyTypes :
        LET r == execute_intelligent_retry(payments_storage, recovery_strategies_storage,
                                            payment_id, strategy_type) IN
            /\ ReliabilityCalled
            /\ payments_storage' = r.payments
            /\ ret' = [op |-> "execute_intelligent_retry", merchant |-> None, tier |-> "-",
                       result |-> r.result, pid |-> Some(payment_id), batch |-> None,
                       settle |-> NoSettle, out |-> Some(strategy_type)]
            /\ retry_initiated_count' =
                  IF r.result = "retry_initiated"
                  THEN [retry_initiated_count EXCEPT
                           ![payment_id] = IF @ > MAX_RETRIES THEN @ ELSE @ + 1]
                  ELSE retry_initiated_count
            /\ UNCHANGED agent_config_storage

StartMonitoring ==
    /\ ReliabilityCalled
    /\ agent_config_storage' = start_monitoring(agent_config_storage)
    /\ ret' = [op |-> "start_monitoring", merchant |-> None, tier |-> "-",
               result |-> "true", pid |-> None, batch |-> None,
               settle |-> NoSettle, out |-> None]
    /\ UNCHANGED <<payments_storage, retry_initiated_count>>

StopMonitoring ==
    /\ ReliabilityCalled
    /\ agent_config_storage' = stop_monitoring(agent_config_storage)
    /\ ret' = [op |-> "stop_monitoring", merchant |-> None, tier |-> "-",
               result |-> "false", pid |-> None, batch |-> None,
               settle |-> NoSettle, out |-> None]
    /\ UNCHANGED <<payments_storage, retry_initiated_count>>

NextReliability ==
    \/ Tick
    \/ RegisterPayment
    \/ ExecuteIntelligentRetry
    \/ StartMonitoring
    \/ StopMonitoring

SpecReliability == InitTwo /\ [][NextReliability]_vars

\* ----------------------------------------- stablecoin swap agent: actions
\* A call to the stablecoin swap agent: the other agents are idle.
SwapCalled ==
    /\ ops < MaxSwapOps
    /\ ops' = ops + 1
    /\ UNCHANGED <<stores, now, settle_true_count, merchants, settling,
                   payments_storage, recovery_strategies_storage, agent_config_storage,
                   retry_initiated_count, supported_tokens_storage>>

SwapToUsdc ==
    \E input_token \in SwapTokens, input_amount \in SwapAmounts,
       slippage_given \in {None, Some(100)}, h \in HashBuckets,
       success \in BOOLEAN, variance \in {1000, 5000} :
        LET r == swap_to_usdc(swap_requests_storage, swap_config_storage,
                              supported_tokens_storage, input_token, input_amount,
                              slippage_given, h, success, variance, now) IN
            /\ SwapCalled
            /\ swap_requests_storage' = r.requests
            /\ ret' = [op |-> "swap_to_usdc", merchant |-> None, tier |-> "-",
                       result |-> r.result, pid |-> r.id, batch |-> None,
                       settle |-> NoSettle, out |-> None]
            /\ UNCHANGED <<swap_config_storage, pause_held>>

UpdateConfig ==
    \E new_config \in NewConfigs :
        /\ SwapCalled
        /\ swap_config_storage' = update_config(swap_config_storage, new_config)
        /\ ret' = [op |-> "update_config", merchant |-> None, tier |-> "-",
                   result |-> "true", pid |-> None, batch |-> None,
                   settle |-> NoSettle, out |-> Some(new_config)]
        /\ pause_held' = IF new_config.emergency_pause = Some(FALSE) THEN FALSE
                         ELSE pause_held
        /\ UNCHANGED swap_requests_storage

EmergencyPause ==
    LET r == emergency_pause(swap_config_storage) IN
        /\ SwapCalled
        /\ swap_config_storage' = r.config
        /\ ret' = [op |-> "emergency_pause", merchant |-> None, tier |-> "-",
                   result |-> IF r.result THEN "true" ELSE "false", pid |-> None,
                   batch |-> None, settle |-> NoSettle, out |-> None]
        /\ pause_held' = (pause_held \/ r.result)
        /\ UNCHANGED swap_requests_storage

ResumeOperations ==
    LET r == resume_operations(swap_config_storage) IN
        /\ SwapCalled
        /\ swap_config_storage' = r.config
        /\ ret' = [op |-> "resume_operations", merchant |-> None, tier |-> "-",
                   result |-> IF r.result THEN "true" ELSE "false", pid |-> None,
                   batch |-> None, settle |-> NoSettle, out |-> None]
        /\ pause_held' = FALSE
        /\ UNCHANGED swap_requests_storage

NextSwap ==
    \/ Tick
    \/ SwapToUsdc
    \/ UpdateConfig
    \/ EmergencyPause
    \/ ResumeOperations

SpecSwap == InitTwo /\ [][NextSwap]_vars

\* ================================================================ claims
IsCall(op) == ops' = ops + 1 /\ ret'.op = op

\* The batch a settle_batch call (direct or nested) was made on.
SettledBid(info) == CHOOSE b \in info.bid : TRUE

PaymentsOf(pay, batch_id) == {p \in DOMAIN pay : pay[p].batch_id = Some(batch_id)}

OpenBatchesOf(bat, merchant_id) ==
    {b \in DOMAIN bat : bat[b].merchant_id = merchant_id
                        /\ bat[b].status \in {"pending", "processing"}}

\* C1: for every batch_id, at most one settle_batch call (direct or nested)
\* returns True over the whole execution.
C1_SettleSucceedsAtMostOnce ==
    \A b \in BatchIds : settle_true_count[b] <= 1

\* C2: for every merchant with an escrow account, total_balance equals the
\* sum of total_amount over the merchant's batches that are Pending or
\* Processing.
C2_BalanceEqualsOpenBatches ==
    \A m \in DOMAIN escrow_pdas_storage :
        escrow_pdas_storage[m].total_balance =
            SumTotal(batches_storage, OpenBatchesOf(batches_storage, m))

\* C3: total_balance and pending_batches of every escrow account are >= 0
\* in every reachable state.
C3_BalanceNonNegative ==
    \A m \in DOMAIN escrow_pdas_storage :
        /\ escrow_pdas_storage[m].total_balance >= 0
        /\ escrow_pdas_storage[m].pending_batches >= 0

\* C3 witness: a batch was created and settled, so the account was credited
\* and debited, and another batch of the merchant is still counted.
C3_Witness ==
    /\ ret.settle.called /\ ret.settle.result
    /\ \E m \in DOMAIN escrow_pdas_storage :
          /\ SettledBid(ret.settle)[1] = m
          /\ escrow_pdas_storage[m].total_balance > 0

\* C4: every stored batch's total_amount equals the sum of the amounts of the
\* stored payments that carry its batch_id.
C4_TotalEqualsPaymentSum ==
    \A b \in DOMAIN batches_storage :
        batches_storage[b].total_amount =
            SumAmount(batch_payments_storage, PaymentsOf(batch_payments_storage, b))

\* C5: a stored payment's status is one of the four statuses and every call
\* leaves it as it is or moves it forward: pending -> batched, batched ->
\* settled / failed, or pending -> settled / failed through batched in one
\* call (the call that batches the payment also settles the batch, so the
\* payment got its batch_id in that call); a stored payment stays stored.
C5_PaymentStatusForward ==
    [][\A p \in DOMAIN batch_payments_storage :
          /\ batch_payments_storage[p].status \in {"pending", "batched", "settled", "failed"}
          /\ p \in DOMAIN batch_payments_storage'
          /\ \/ batch_payments_storage'[p].status = batch_payments_storage[p].status
             \/ <<batch_payments_storage[p].status, batch_payments_storage'[p].status>>
                   \in {<<"pending", "batched">>, <<"batched", "settled">>,
                        <<"batched", "failed">>}
             \/ /\ batch_payments_storage[p].status = "pending"
                /\ batch_payments_storage'[p].status \in {"settled", "failed"}
                /\ batch_payments_storage'[p].batch_id # None
                /\ ret'.batch = batch_payments_storage'[p].batch_id]_vars

\* C6: a batch record moves only pending -> processing -> settled / failed
\* (a call may take several of these moves), and a record that is settled
\* or failed is never changed again.
C6_BatchTerminalImmutable ==
    [][\A b \in DOMAIN batches_storage :
          /\ b \in DOMAIN batches_storage'
          /\ (batches_storage[b].status \in {"settled", "failed"}
                => batches_storage'[b] = batches_storage[b])
          /\ (batches_storage[b].status = "processing"
                => batches_storage'[b].status \in {"processing", "settled", "failed"})]_vars

\* C7: settle_batch called on a stored batch that is not pending returns
\* False and changes no store.
C7_NonPendingSettleRejected ==
    [][\A b \in DOMAIN batches_storage :
          (/\ IsCall("settle_batch")
           /\ ret'.settle.bid = Some(b)
           /\ batches_storage[b].status # "pending")
          => (ret'.result = "false" /\ UNCHANGED stores)]_vars

\* C7 witness: settle_batch was called on a settled or failed batch.
C7_Witness ==
    /\ ret.op = "settle_batch"
    /\ ret.settle.seen \in {"settled", "failed"}
    /\ ret.result = "false"

\* C8: while emergency_pause is set, settle_batch on a pending batch returns
\* False and mutates nothing.  Called directly, it changes no store.  Called
\* by create_batch_for_merchant on the batch it has just created, it leaves
\* that batch pending, the payments of that batch batched and every earlier
\* payment as it was.
C8_PausedSettleRejected ==
    [][(/\ ops' = ops + 1
        /\ ret'.settle.called
        /\ settle_config_storage["default"].emergency_pause
        /\ (ret'.op = "settle_batch"
              => /\ SettledBid(ret'.settle) \in DOMAIN batches_storage
                 /\ batches_storage[SettledBid(ret'.settle)].status = "pending"))
       => LET b == SettledBid(ret'.settle) IN
          /\ ~ret'.settle.result
          /\ batches_storage'[b].status = "pending"
          /\ (ret'.op = "settle_batch" => (ret'.result = "false" /\ UNCHANGED stores))
          /\ (ret'.op # "settle_batch" =>
                \A p \in DOMAIN batch_payments_storage' :
                   IF /\ batch_payments_storage'[p].merchant_id = b[1]
                      /\ \/ p \notin DOMAIN batch_payments_storage
                         \/ batch_payments_storage[p].status = "pending"
                         \/ ret'.pid = Some(p)
                   THEN /\ batch_payments_storage'[p].status = "batched"
                        /\ batch_payments_storage'[p].batch_id = Some(b)
                   ELSE /\ p \in DOMAIN batch_payments_storage
                        /\ batch_payments_storage'[p] = batch_payments_storage[p])]_vars

\* C8 witness: settle_batch was called on a pending batch with payments
\* while the pause was set.
C8_Witness ==
    /\ ret.op = "settle_batch"
    /\ ret.settle.paused
    /\ ret.settle.seen = "pending"
    /\ settle_config_storage["default"].emergency_pause
    /\ PaymentsOf(batch_payments_storage, SettledBid(ret.settle)) # {}

\* C9: after a settle_batch call in which the connector succeeded, the call
\* returned True, the batch is settled with a transaction hash, and every
\* payment carrying the batch_id is settled with the batch's transaction hash.
C9_SuccessSettlesBatchAndPayments ==
    (ret.settle.called /\ ret.settle.connector = "success")
    => LET b == SettledBid(ret.settle) IN
       /\ ret.settle.result
       /\ (ret.op = "settle_batch" => ret.result = "true")
       /\ batches_storage[b].status = "settled"
       /\ batches_storage[b].transaction_hash # None
       /\ \A p \in PaymentsOf(batch_payments_storage, b) :
             /\ batch_payments_storage[p].status = "settled"
             /\ batch_payments_storage[p].transaction_hash
                   = batches_storage[b].transaction_hash

\* C9 witness: the connector succeeded for a batch with payments.
C9_Witness ==
    /\ ret.settle.called /\ ret.settle.connector = "success"
    /\ PaymentsOf(batch_payments_storage, SettledBid(ret.settle)) # {}

\* C10: after a settle_batch call that returned True, the batch's settled_at
\* is set and the merchant's last_settlement is set to the same time.
C10_SettledAtRecorded ==
    (ret.settle.called /\ ret.settle.result)
    => LET b == SettledBid(ret.settle)
           m == batches_storage[b].merchant_id
       IN  /\ batches_storage[b].settled_at # None
           /\ m \in DOMAIN escrow_pdas_storage
           /\ escrow_pdas_storage[m].last_settlement # None
           /\ escrow_pdas_storage[m].last_settlement = batches_storage[b].settled_at

\* C11: a settle_batch call that succeeds on batch b of merchant m lowers m's
\* escrow total_balance by exactly b.total_amount and its pending_batches by
\* exactly 1, each floored at 0, and changes no other merchant's escrow account.
C11_SuccessDebitsOwnerOnly ==
    [][(IsCall("settle_batch") /\ ret'.settle.result) =>
        LET b == SettledBid(ret'.settle)
            m == batches_storage[b].merchant_id
        IN  /\ m \in DOMAIN escrow_pdas_storage
            /\ DOMAIN escrow_pdas_storage' = DOMAIN escrow_pdas_storage
            /\ escrow_pdas_storage'[m].total_balance =
                   Max(0, escrow_pdas_storage[m].total_balance - batches_storage[b].total_amount)
            /\ escrow_pdas_storage'[m].pending_batches =
                   Max(0, escrow_pdas_storage[m].pending_batches - 1)
            /\ \A o \in DOMAIN escrow_pdas_storage \ {m} :
                   escrow_pdas_storage'[o] = escrow_pdas_storage[o]]_vars

\* A direct settle_batch call succeeded on m1's batch while m2 holds a balance.
C11_Witness ==
    /\ ret.op = "settle_batch" /\ ret.settle.result
    /\ ret.settle.bid = Some(<<"m1", 0>>)
    /\ batches_storage[<<"m1", 0>>].total_amount = 1
    /\ escrow_pdas_storage["m1"].total_balance = 0
    /\ escrow_pdas_storage["m1"].pending_batches = 0
    /\ escrow_pdas_storage["m2"].total_balance = MaxAmount
    /\ escrow_pdas_storage["m2"].pending_batches = 1
\* The payments a batch created in this step was formed from: the merchant's
\* payments that were pending before the call, and the payment the call stored.
FormedFrom(m) ==
    {p \in DOMAIN batch_payments_storage' :
        \/ ret'.pid = Some(p)
        \/ /\ p \in DOMAIN batch_payments_storage
           /\ batch_payments_storage[p].merchant_id = m
           /\ batch_payments_storage[p].status = "pending"}

\* C12: when the connector fails in a settle_batch call on a pending batch, the
\* call returns False, the batch becomes failed with a non-empty error_message,
\* and every payment of that batch remains batched with its batch_id unchanged
\* (no payment record is touched by the failing settlement).
C12_FailureKeepsPaymentsBatched ==
    [][(ops' = ops + 1 /\ ret'.settle.called /\ ret'.settle.connector = "failure") =>
        LET b == SettledBid(ret'.settle) IN
        /\ ret'.settle.seen = "pending"
        /\ ~ret'.settle.result
        /\ batches_storage'[b].status = "failed"
        /\ batches_storage'[b].error_message # None
        /\ (ret'.op = "settle_batch" =>
              /\ ret'.result = "false"
              /\ batch_payments_storage' = batch_payments_storage
              /\ \A p \in PaymentsOf(batch_payments_storage, b) :
                    batch_payments_storage[p].status = "batched" =>
                       /\ batch_payments_storage'[p].status = "batched"
                       /\ batch_payments_storage'[p].batch_id = Some(b))
        /\ (ret'.op # "settle_batch" =>
              \A p \in DOMAIN batch_payments_storage' :
                 IF p \in FormedFrom(b[1])
                 THEN /\ batch_payments_storage'[p].status = "batched"
                      /\ batch_payments_storage'[p].batch_id = Some(b)
                 ELSE /\ p \in DOMAIN batch_payments_storage
                      /\ batch_payments_storage'[p] = batch_payments_storage[p])]_vars

\* A direct settle_batch call on m1's pending batch met a connector failure.
C12_Witness ==
    /\ ret.op = "settle_batch" /\ ret.result = "false"
    /\ ret.settle.connector = "failure" /\ ret.settle.seen = "pending"
    /\ ret.settle.bid = Some(<<"m1", 0>>)
    /\ batches_storage[<<"m1", 0>>].status = "failed"
    /\ \E p \in PaymentsOf(batch_payments_storage, <<"m1", 0>>) :
          batch_payments_storage[p].status = "batched"
\* C13 (as stated): when the connector fails, the caller receives False and the
\* batch and every payment of the batch end with status failed and carry an
\* error message.
C13_FailureMarksPaymentsFailed ==
    [][(ops' = ops + 1 /\ ret'.settle.called /\ ret'.settle.connector = "failure") =>
        LET b == SettledBid(ret'.settle) IN
        /\ ~ret'.settle.result
        /\ batches_storage'[b].status = "failed"
        /\ batches_storage'[b].error_message # None
        /\ \A p \in PaymentsOf(batch_payments_storage', b) :
              /\ batch_payments_storage'[p].status = "failed"
              /\ batch_payments_storage'[p].error_message # None]_vars

\* C13 (amended): when the connector fails, the caller receives False and the
\* batch ends with status failed and an error message; the failure is recorded
\* on the batch only: no payment has status failed or an error message.
C13_FailureRecordedOnBatchOnly ==
    (ret.settle.called /\ ret.settle.connector = "failure") =>
        LET b == SettledBid(ret.settle) IN
        /\ ~ret.settle.result
        /\ ret.op = "settle_batch" => ret.result = "false"
        /\ batches_storage[b].status = "failed"
        /\ batches_storage[b].error_message = Some("Settlement transaction failed")
        /\ batches_storage[b].transaction_hash = None
        /\ PaymentsOf(batch_payments_storage, b) # {}
        /\ \A p \in DOMAIN batch_payments_storage :
              /\ batch_payments_storage[p].status # "failed"
              /\ batch_payments_storage[p].error_message = None

\* The settle call nested in a process_payment call met a connector failure.
C13_Witness ==
    /\ ret.op = "process_payment"
    /\ ret.settle.called /\ ret.settle.connector = "failure"
    /\ ret.batch = ret.settle.bid
    /\ \E p \in PaymentsOf(batch_payments_storage, SettledBid(ret.settle)) :
          batch_payments_storage[p].status = "batched"
\* The merchant's pending total at the moment the trigger of this step's
\* process_payment call is evaluated.
FormedTotal(m) == SumAmount(batch_payments_storage', FormedFrom(m))

\* The trigger conditions of batch creation, on the merchant's configuration
\* and pending payments at the moment the trigger is evaluated.
TriggerHolds(m) ==
    /\ m \in DOMAIN merchant_configs_storage'
    /\ merchant_configs_storage'[m].batching_enabled
    /\ Cardinality(FormedFrom(m)) >= 1
    /\ FormedTotal(m) >= merchant_configs_storage'[m].min_batch_amount
    /\ \/ FormedTotal(m) >= merchant_configs_storage'[m].max_batch_amount
       \/ Cardinality(FormedFrom(m)) >= MIN_PAYMENT_COUNT

\* C14: the trigger evaluation of a process_payment call on the escrow path
\* creates a batch iff the merchant's config exists with batching_enabled, the
\* merchant has at least one pending payment, their total is >= min_batch_amount,
\* and the total is >= max_batch_amount or there are at least 3 pending payments;
\* otherwise no batch is returned and nothing but the stored payment changes.
C14_BatchIffTrigger ==
    [][(IsCall("process_payment") /\ ret'.result = "escrow_batched") =>
        LET m == CHOOSE x \in ret'.merchant : TRUE
            pid == CHOOSE x \in ret'.pid : TRUE
        IN  /\ (ret'.batch # None) <=> TriggerHolds(m)
            /\ (ret'.batch # None) => (CHOOSE b \in ret'.batch : TRUE) \in DOMAIN batches_storage'
            /\ (ret'.batch = None) =>
                  /\ batches_storage' = batches_storage
                  /\ ~ret'.settle.called
                  /\ \A o \in DOMAIN escrow_pdas_storage :
                        escrow_pdas_storage'[o] = escrow_pdas_storage[o]
                  /\ batch_payments_storage'[pid].status = "pending"
                  /\ \A p \in DOMAIN batch_payments_storage \ {pid} :
                        batch_payments_storage'[p] = batch_payments_storage[p]]_vars

\* A process_payment call created a batch on the count trigger: three pending
\* payments whose total is below max_batch_amount.
C14_Witness ==
    /\ ret.op = "process_payment" /\ ret.batch # None
    /\ LET b == CHOOSE x \in ret.batch : TRUE IN
          /\ batches_storage[b].payment_count = MIN_PAYMENT_COUNT
          /\ batches_storage[b].total_amount
                < merchant_configs_storage[b[1]].max_batch_amount
\* C15 (as stated): for a batching-enabled merchant, a process_payment call on
\* the escrow path after which the pending total equals max_batch_amount
\* creates a batch at once, whatever the number of pending payments.
C15_ExactMaxCreatesBatch ==
    [][(IsCall("process_payment") /\ ret'.result = "escrow_batched") =>
        LET m == CHOOSE x \in ret'.merchant : TRUE IN
        (/\ merchant_configs_storage'[m].batching_enabled
         /\ FormedTotal(m) = merchant_configs_storage'[m].max_batch_amount)
        => ret'.batch # None]_vars

\* C15 (amended): for a batching-enabled merchant, a process_payment call on
\* the escrow path after which the pending total equals max_batch_amount and
\* is not below min_batch_amount creates a batch at once, whatever the number
\* of pending payments, and the batch takes exactly those payments.
C15_ExactMaxAboveMinCreatesBatch ==
    [][(IsCall("process_payment") /\ ret'.result = "escrow_batched") =>
        LET m == CHOOSE x \in ret'.merchant : TRUE IN
        (/\ merchant_configs_storage'[m].batching_enabled
         /\ FormedTotal(m) = merchant_configs_storage'[m].max_batch_amount
         /\ FormedTotal(m) >= merchant_configs_storage'[m].min_batch_amount)
        => /\ ret'.batch # None
           /\ LET b == CHOOSE x \in ret'.batch : TRUE IN
                 /\ batches_storage'[b].total_amount = FormedTotal(m)
                 /\ batches_storage'[b].payment_count = Cardinality(FormedFrom(m))]_vars

\* A process_payment call created a batch from a single payment whose amount
\* equals max_batch_amount.
C15_Witness ==
    /\ ret.op = "process_payment" /\ ret.batch # None
    /\ LET b == CHOOSE x \in ret.batch : TRUE IN
          /\ batches_storage[b].payment_count = 1
          /\ batches_storage[b].total_amount = merchant_configs_storage[b[1]].max_batch_amount
          /\ merchant_configs_storage[b[1]].min_batch_amount
                <= merchant_configs_storage[b[1]].max_batch_amount
\* The escrow account of merchant m before this step; a merchant without an
\* account has balance 0 and no pending batch.
PriorBalance(m) ==
    IF m \in DOMAIN escrow_pdas_storage THEN escrow_pdas_storage[m].total_balance ELSE 0

PriorPendingBatches(m) ==
    IF m \in DOMAIN escrow_pdas_storage THEN escrow_pdas_storage[m].pending_batches ELSE 0

\* C16: when a call creates a batch for merchant m from the pending payments P,
\* the new batch has status pending (that is what a nested settle call sees, and
\* what is stored if none runs), total_amount = sum of P's amounts and
\* payment_count = |P|; every payment in P becomes batched with the batch_id;
\* m's escrow total_balance grows by exactly total_amount and pending_batches
\* by 1 (and a nested settlement that succeeds then takes both off again).
C16_CreationEffects ==
    [][(ops' = ops + 1 /\ ret'.batch # None) =>
        LET m == CHOOSE x \in ret'.merchant : TRUE
            b == CHOOSE x \in ret'.batch : TRUE
            P == FormedFrom(m)
            total == SumAmount(batch_payments_storage', P)
            settled == ret'.settle.called /\ ret'.settle.result
        IN  /\ b \in DOMAIN batches_storage'
            /\ batches_storage'[b].merchant_id = m
            /\ batches_storage'[b].total_amount = total
            /\ batches_storage'[b].payment_count = Cardinality(P)
            /\ P # {}
            /\ ret'.settle.called => (ret'.settle.bid = Some(b) /\ ret'.settle.seen = "pending")
            /\ batches_storage'[b].status =
                  (IF ~ret'.settle.called \/ ret'.settle.paused THEN "pending"
                   ELSE IF settled THEN "settled" ELSE "failed")
            /\ \A p \in P :
                  /\ batch_payments_storage'[p].batch_id = Some(b)
                  /\ batch_payments_storage'[p].status =
                        (IF settled THEN "settled" ELSE "batched")
            /\ m \in DOMAIN escrow_pdas_storage'
            /\ escrow_pdas_storage'[m].total_balance =
                  (IF settled THEN Max(0, PriorBalance(m) + total - total)
                   ELSE PriorBalance(m) + total)
            /\ escrow_pdas_storage'[m].pending_batches =
                  (IF settled THEN PriorPendingBatches(m)
                   ELSE PriorPendingBatches(m) + 1)]_vars

\* Three pending payments of 1 (minimum 2) were taken into one batch that the
\* nested settlement left unsettled.
C16_Witness ==
    /\ ret.batch # None /\ ~ret.settle.result
    /\ LET b == CHOOSE x \in ret.batch : TRUE IN
          /\ batches_storage[b].total_amount = 3
          /\ batches_storage[b].payment_count = 3
          /\ merchant_configs_storage[b[1]].min_batch_amount = DEFAULT_MIN_BATCH_AMOUNT
          /\ Cardinality(PaymentsOf(batch_payments_storage, b)) = 3
          /\ \A p \in PaymentsOf(batch_payments_storage, b) :
                batch_payments_storage[p].status = "batched"
          /\ escrow_pdas_storage[b[1]].total_balance = 3
          /\ escrow_pdas_storage[b[1]].pending_batches = 1
C18_AutoSettleOnCreation ==
    [][(ops' = ops + 1 /\ ret'.batch # None) =>
        LET m == CHOOSE x \in ret'.merchant : TRUE
            b == CHOOSE x \in ret'.batch : TRUE
            paused == settle_config_storage["default"].emergency_pause
        IN  IF merchant_configs_storage'[m].auto_settle
            THEN /\ ret'.settle.called
                 /\ ret'.settle.bid = Some(b)
                 /\ ~paused => batches_storage'[b].status \in {"settled", "failed"}
                 /\ ~paused => (batches_storage'[b].status = "settled" <=> ret'.settle.result)
                 /\ paused => batches_storage'[b].status = "pending"
            ELSE /\ ~ret'.settle.called
                 /\ batches_storage'[b].status = "pending"
                 /\ \A p \in FormedFrom(m) :
                       /\ batch_payments_storage'[p].status = "batched"
                       /\ batch_payments_storage'[p].batch_id = Some(b)
                 /\ escrow_pdas_storage'[m].pending_batches = PriorPendingBatches(m) + 1]_vars

\* A batch was created for a merchant whose auto_settle is false: no settlement
\* was attempted, the batch is pending and its payments are batched.
C18_Witness ==
    /\ ret.batch # None /\ ~ret.settle.called
    /\ LET b == CHOOSE x \in ret.batch : TRUE IN
          /\ ~merchant_configs_storage[b[1]].auto_settle
          /\ ~settle_config_storage["default"].emergency_pause
          /\ batches_storage[b].status = "pending"
          /\ PaymentsOf(batch_payments_storage, b) # {}
          /\ \A p \in PaymentsOf(batch_payments_storage, b) :
                batch_payments_storage[p].status = "batched"
\* C19: a process_payment call with a free-tier credential returns
\* direct_settled; it creates no escrow account, no pending payment and no
\* batch, and leaves every existing escrow account, batch and pending payment
\* unchanged.
C19_FreePathTouchesNoEscrowState ==
    [][(IsCall("process_payment") /\ ret'.tier = "free") =>
        /\ ret'.result = "direct_settled"
        /\ ret'.batch = None /\ ~ret'.settle.called
        /\ escrow_pdas_storage' = escrow_pdas_storage
        /\ batches_storage' = batches_storage
        /\ \A p \in DOMAIN batch_payments_storage' :
              batch_payments_storage'[p].status = "pending" =>
                 /\ p \in DOMAIN batch_payments_storage
                 /\ batch_payments_storage[p] = batch_payments_storage'[p]
        /\ \A p \in DOMAIN batch_payments_storage :
              batch_payments_storage[p].status = "pending" =>
                 batch_payments_storage'[p] = batch_payments_storage[p]]_vars

\* C20: a process_payment call with a business or enterprise credential
\* returns escrow_batched, leaves the merchant with an escrow account (created
\* with balance 0 if absent, otherwise as it was until a batch is created), and
\* appends exactly one new payment, under an id not stored before, pending and
\* without batch_id when the trigger is evaluated; the path follows the
\* credential of the call, whatever the stored configuration.
C20_EscrowPathAppendsOnePending ==
    [][IsCall("process_payment") =>
        LET m == CHOOSE x \in ret'.merchant : TRUE
            pid == CHOOSE x \in ret'.pid : TRUE
        IN  IF ret'.tier \in {"business", "enterprise"}
            THEN /\ ret'.result = "escrow_batched"
                 /\ m \in DOMAIN escrow_pdas_storage'
                 /\ ret'.batch = None =>
                       /\ escrow_pdas_storage'[m].total_balance = PriorBalance(m)
                       /\ escrow_pdas_storage'[m].pending_batches = PriorPendingBatches(m)
                       /\ batch_payments_storage'[pid].status = "pending"
                       /\ batch_payments_storage'[pid].batch_id = None
                 /\ \A o \in DOMAIN escrow_pdas_storage \ {m} :
                       escrow_pdas_storage'[o] = escrow_pdas_storage[o]
                 /\ pid \notin DOMAIN batch_payments_storage
                 /\ DOMAIN batch_payments_storage' = DOMAIN batch_payments_storage \cup {pid}
                 /\ batch_payments_storage'[pid].merchant_id = m
            ELSE ret'.result = "direct_settled"]_vars
\* This step created a batch for merchant m.
CreatedFor(m) == ops' = ops + 1 /\ ret'.batch # None /\ ret'.merchant = Some(m)

\* This step settled a batch of merchant m successfully (directly or nested).
SettledFor(m) ==
    /\ ops' = ops + 1
    /\ ret'.settle.called /\ ret'.settle.result
    /\ batches_storage'[SettledBid(ret'.settle)].merchant_id = m

\* C21: an escrow total_balance increases only in a step that creates a batch
\* for that merchant and decreases only in a step that successfully settles
\* one of that merchant's batches; every other step (a payment without a
\* trigger, a config update, a rejected, paused or failed settlement, a query)
\* leaves it unchanged.
C21_BalanceChangesOnlyOnCreateAndSettle ==
    [][\A m \in DOMAIN escrow_pdas_storage' :
          LET before == PriorBalance(m)
              after == escrow_pdas_storage'[m].total_balance
          IN  /\ after > before => CreatedFor(m)
              /\ after < before => SettledFor(m)
              /\ (~CreatedFor(m) /\ ~SettledFor(m)) => after = before
              /\ (CreatedFor(m) /\ ~SettledFor(m)) =>
                    after = before + batches_storage'[CHOOSE b \in ret'.batch : TRUE].total_amount
              /\ (SettledFor(m) /\ ~CreatedFor(m)) =>
                    after = Max(0, before - batches_storage'[SettledBid(ret'.settle)].total_amount)]_vars

\* A direct settle_batch call met a connector failure and the merchant's
\* balance is still the total of the batch.
C21_Witness ==
    /\ ret.op = "settle_batch" /\ ret.settle.connector = "failure"
    /\ LET b == SettledBid(ret.settle) IN
          /\ escrow_pdas_storage[b[1]].total_balance = batches_storage[b].total_amount
          /\ batches_storage[b].total_amount > 0
\* The settle_batch call of this step ran on the batch of the waiting call.
OverlappingSettle ==
    /\ settling # None /\ settling' = settling
    /\ IsCall("settle_batch")
    /\ \E call \in settling : ret'.settle.bid = Some(call.batch_id)

C23_SettleRunsToCompletion ==
    /\ \A b \in DOMAIN batches_storage : batches_storage[b].status # "processing"
    /\ (ret.settle.called /\ ret.settle.connector = "success") =>
          batches_storage[SettledBid(ret.settle)].status = "settled"
    /\ (ret.settle.called /\ ret.settle.connector = "failure") =>
          batches_storage[SettledBid(ret.settle)].status = "failed"

\* A direct settle_batch call passed its checks on a pending batch, the
\* settlement failed and the batch is failed.
C23_Witness ==
    /\ ret.op = "settle_batch" /\ ret.settle.seen = "pending"
    /\ ret.settle.connector = "failure"
    /\ batches_storage[SettledBid(ret.settle)].status = "failed"
\* C24: batch membership is immutable: a payment's batch_id, once set, is
\* never changed or cleared; no payment joins a batch after the batch was
\* created; a batch's total_amount and payment_count never change after
\* creation.
C24_BatchMembershipImmutable ==
    [][/\ \A p \in DOMAIN batch_payments_storage :
             batch_payments_storage[p].batch_id # None =>
                /\ p \in DOMAIN batch_payments_storage'
                /\ batch_payments_storage'[p].batch_id = batch_payments_storage[p].batch_id
       /\ \A b \in DOMAIN batches_storage :
             /\ b \in DOMAIN batches_storage'
             /\ batches_storage'[b].total_amount = batches_storage[b].total_amount
             /\ batches_storage'[b].payment_count = batches_storage[b].payment_count
             /\ \A p \in DOMAIN batch_payments_storage' :
                   batch_payments_storage'[p].batch_id = Some(b) =>
                      /\ p \in DOMAIN batch_payments_storage
                      /\ batch_payments_storage[p].batch_id = Some(b)]_vars
\* C25: an operation on an absent entity returns its negative result and
\* leaves every store unchanged: settle_batch on an unknown batch id returns
\* false, update_merchant_config on an unknown merchant returns false,
\* get_merchant_config returns none, and create_batch_for_merchant returns
\* merchant_not_found for an unknown merchant and no_pending_payments for a
\* known merchant without pending payments.
C25_AbsentEntityRefused ==
    [][/\ (IsCall("settle_batch") /\ SettledBid(ret'.settle) \notin DOMAIN batches_storage) =>
             (ret'.result = "false" /\ UNCHANGED stores)
       /\ \A m \in Merchants : ret'.merchant = Some(m) =>
             /\ (IsCall("update_merchant_config") /\ m \notin DOMAIN merchant_configs_storage) =>
                   (ret'.result = "false" /\ UNCHANGED stores)
             /\ (IsCall("get_merchant_config") /\ m \notin DOMAIN merchant_configs_storage) =>
                   (ret'.out = None /\ UNCHANGED stores)
             /\ (IsCall("create_batch_for_merchant") /\ m \notin DOMAIN merchant_configs_storage) =>
                   (ret'.result = "merchant_not_found" /\ UNCHANGED stores)
             /\ (/\ IsCall("create_batch_for_merchant")
                 /\ m \in DOMAIN merchant_configs_storage
                 /\ pending_payments(batch_payments_storage, m) = {}) =>
                   (ret'.result = "no_pending_payments" /\ UNCHANGED stores)]_vars

\* create_batch_for_merchant was called for a known merchant that holds
\* payments, none of them pending, and returned no_pending_payments.
C25_Witness ==
    /\ ret.op = "create_batch_for_merchant" /\ ret.result = "no_pending_payments"
    /\ \E m \in ret.merchant :
          /\ m \in DOMAIN merchant_configs_storage
          /\ \E p \in DOMAIN batch_payments_storage : batch_payments_storage[p].merchant_id = m
\* The record returned by the get_batching_metrics call of ret.
MetricsOut == CHOOSE x \in ret.out : TRUE

\* C26: get_batching_metrics never divides by zero, and on a canister with
\* zero batches it returns settlement_success_rate 0 and average_batch_size 0.
C26_MetricsOnNoBatches ==
    ret.op = "get_batching_metrics" =>
        /\ ret.out # None
        /\ MetricsOut.error = "-"
        /\ batches_storage = <<>> =>
              /\ MetricsOut.settlement_success_rate = 0
              /\ MetricsOut.average_batch_size = 0

\* get_batching_metrics answered on a canister without batches that already
\* holds a pending payment.
C26_Witness ==
    /\ ret.op = "get_batching_metrics"
    /\ batches_storage = <<>>
    /\ batch_payments_storage # <<>>
    /\ MetricsOut.total_batches_processed = 0
    /\ MetricsOut.settlement_success_rate = 0
\* C27: whatever the stores hold, get_batching_metrics returns
\* settlement_success_rate = floor(settled_count * 10000 / max(1, total_count)),
\* a value in 0..10000, and
\* average_batch_size = floor(total_volume / max(1, batch_count)).
C27_MetricsAreFlooredQuotients ==
    ret.op = "get_batching_metrics" =>
        LET all_batches == DOMAIN batches_storage
            total_count == Cardinality(all_batches)
            settled_count ==
                Cardinality({b \in all_batches : batches_storage[b].status = "settled"})
            total_volume == SumTotal(batches_storage, all_batches)
        IN  /\ MetricsOut.settlement_success_rate =
                  (settled_count * 10000) \div Max(1, total_count)
            /\ MetricsOut.settlement_success_rate \in 0..10000
            /\ MetricsOut.average_batch_size = total_volume \div Max(1, total_count)
QueryOps == {"get_batching_metrics", "get_merchant_config", "get_merchant_batches",
             "get_escrow_balance"}

\* C28: the read operations get_batching_metrics, get_merchant_config,
\* get_merchant_batches and get_escrow_balance leave all five stores
\* unchanged; get_escrow_balance for a merchant without an escrow account
\* returns 0 and creates no account.
C28_QueriesChangeNothing ==
    [][(ops' = ops + 1 /\ ret'.op \in QueryOps) =>
          /\ UNCHANGED stores
          /\ \A m \in ret'.merchant :
                (ret'.op = "get_escrow_balance" /\ m \notin DOMAIN escrow_pdas_storage) =>
                    /\ ret'.out = Some(0)
                    /\ m \notin DOMAIN escrow_pdas_storage']_vars

\* get_escrow_balance answered 0 for a merchant that has a configuration but
\* no escrow account, and there is still none.
C28_Witness ==
    /\ ret.op = "get_escrow_balance" /\ ret.out = Some(0)
    /\ \E m \in ret.merchant :
          /\ m \in DOMAIN merchant_configs_storage
          /\ m \notin DOMAIN escrow_pdas_storage
\* C29: a merchant's configuration is created by the merchant's first
\* process_payment call, with defaults derived from the tier of that call
\* (batching_enabled exactly for business and enterprise, auto_settle true);
\* it is never deleted and is changed only by update_merchant_config.
C29_ConfigLifecycle ==
    [][\A m \in Merchants :
          /\ (m \notin DOMAIN merchant_configs_storage
                  /\ IsCall("process_payment") /\ ret'.merchant = Some(m)) =>
                m \in DOMAIN merchant_configs_storage'
          /\ (m \notin DOMAIN merchant_configs_storage
                  /\ m \in DOMAIN merchant_configs_storage') =>
                /\ IsCall("process_payment") /\ ret'.merchant = Some(m)
                /\ merchant_configs_storage'[m].batching_enabled =
                       (ret'.tier \in {"business", "enterprise"})
                /\ merchant_configs_storage'[m].auto_settle = TRUE
          /\ m \in DOMAIN merchant_configs_storage =>
                /\ m \in DOMAIN merchant_configs_storage'
                /\ merchant_configs_storage'[m] # merchant_configs_storage[m] =>
                      (IsCall("update_merchant_config") /\ ret'.merchant = Some(m))]_vars

\* The first call of a merchant was a free-tier payment: the configuration
\* exists with batching disabled and auto_settle on, and the other merchant
\* has none.
C29_Witness ==
    /\ ret.op = "process_payment" /\ ret.tier = "free"
    /\ \E m \in ret.merchant :
          /\ m \in DOMAIN merchant_configs_storage
          /\ ~merchant_configs_storage[m].batching_enabled
          /\ merchant_configs_storage[m].auto_settle
          /\ DOMAIN merchant_configs_storage = {m}
          /\ DOMAIN batch_payments_storage = {CHOOSE p \in ret.pid : TRUE}
C31_NoBatchWhenDisabledOrBelowMin ==
    [][(ops' = ops + 1 /\ ret'.batch # None) =>
        LET m == CHOOSE x \in ret'.merchant : TRUE
            b == CHOOSE x \in ret'.batch : TRUE
        IN  /\ merchant_configs_storage'[m].batching_enabled
            /\ batches_storage'[b].total_amount >= merchant_configs_storage'[m].min_batch_amount]_vars
\* The failed batches of merchant m.
FailedBatchesOf(bat, m) ==
    {b \in DOMAIN bat : bat[b].merchant_id = m /\ bat[b].status = "failed"}

\* C32: after a batch has failed, no sequence of operations changes the status
\* of its payments (they stay batched with its batch_id and join no new
\* batch), the batch is never retried (it stays failed), and the amount
\* committed for it is never released from the merchant's total_balance.
C32_FailedBatchStaysAsItIs ==
    /\ [][\A b \in DOMAIN batches_storage : batches_storage[b].status = "failed" =>
             /\ b \in DOMAIN batches_storage'
             /\ batches_storage'[b].status = "failed"
             /\ \A p \in PaymentsOf(batch_payments_storage, b) :
                   /\ p \in DOMAIN batch_payments_storage'
                   /\ batch_payments_storage'[p].status = batch_payments_storage[p].status
                   /\ batch_payments_storage'[p].batch_id = Some(b)]_vars
    /\ [](\A b \in DOMAIN batches_storage : batches_storage[b].status = "failed" =>
             \A p \in PaymentsOf(batch_payments_storage, b) :
                 batch_payments_storage[p].status = "batched")
    /\ [](\A m \in DOMAIN escrow_pdas_storage :
             escrow_pdas_storage[m].total_balance >=
                 SumTotal(batches_storage, FailedBatchesOf(batches_storage, m)))
\* C33: payment and batch statuses are consistent in every state between
\* calls: a batch is settled iff every payment carrying its batch_id is
\* settled; every payment carrying the batch_id of a pending or failed batch
\* is batched; every payment with a batch_id refers to a stored batch of the
\* same merchant; and a payment has a batch_id iff it has been batched
\* (pending payments and free-path payments have none).
C33_StatusesConsistent ==
    /\ \A b \in DOMAIN batches_storage :
          /\ (batches_storage[b].status = "settled") <=>
                (\A p \in PaymentsOf(batch_payments_storage, b) :
                     batch_payments_storage[p].status = "settled")
          /\ batches_storage[b].status \in {"pending", "failed"} =>
                \A p \in PaymentsOf(batch_payments_storage, b) :
                    batch_payments_storage[p].status = "batched"
    /\ \A p \in DOMAIN batch_payments_storage :
          LET payment == batch_payments_storage[p] IN
          /\ \A b \in payment.batch_id :
                /\ b \in DOMAIN batches_storage
                /\ batches_storage[b].merchant_id = payment.merchant_id
          /\ payment.status = "pending" => payment.batch_id = None
          /\ payment.status = "batched" => payment.batch_id # None
          /\ payment.transaction_hash = Some(DirectTx(p)) => payment.batch_id = None
          /\ payment.batch_id # None => payment.status \in {"batched", "settled"}
\* C34: every batch creation inserts the new record under an id that was not
\* stored before; it never overwrites an existing batch record, also when two
\* batches of one merchant are created at the same clock value.
C34_BatchIdFresh ==
    [][(ops' = ops + 1 /\ ret'.batch # None) =>
          \A b \in ret'.batch :
              /\ b \notin DOMAIN batches_storage
              /\ DOMAIN batches_storage' = DOMAIN batches_storage \cup {b}]_vars

\* C35: process_payment never replaces a stored payment record: the call
\* stores its payment under an id not present before, so a batched or settled
\* payment is never turned into a fresh pending or direct-settled record and
\* no batch loses the amount of one of its payments.
C35_PaymentIdFresh ==
    [][IsCall("process_payment") =>
          /\ \A pid \in ret'.pid : pid \notin DOMAIN batch_payments_storage
          /\ \A p \in DOMAIN batch_payments_storage :
                /\ p \in DOMAIN batch_payments_storage'
                /\ batch_payments_storage'[p].amount = batch_payments_storage[p].amount
                /\ batch_payments_storage[p].batch_id # None =>
                      batch_payments_storage'[p].batch_id = batch_payments_storage[p].batch_id
                /\ batch_payments_storage[p].status \in {"batched", "settled"} =>
                      batch_payments_storage'[p].status # "pending"]_vars
\* C36: the floor-at-zero clamp of settle_batch is never exercised: in every
\* state in which a pending batch b of merchant m can be settled, m's escrow
\* account exists with total_balance >= b.total_amount and pending_batches
\* >= 1, and a successful settlement takes exactly the batch total and one
\* pending batch off the account.
C36_ClampNeverExercised ==
    /\ [](\A b \in DOMAIN batches_storage :
             (batches_storage[b].status = "pending" /\ ~settle_paused(settle_config_storage)) =>
                LET m == batches_storage[b].merchant_id IN
                /\ m \in DOMAIN escrow_pdas_storage
                /\ escrow_pdas_storage[m].total_balance >= batches_storage[b].total_amount
                /\ escrow_pdas_storage[m].pending_batches >= 1)
    /\ [][(IsCall("settle_batch") /\ ret'.settle.result) =>
            LET b == SettledBid(ret'.settle)
                m == batches_storage[b].merchant_id
            IN  /\ escrow_pdas_storage'[m].total_balance =
                      escrow_pdas_storage[m].total_balance - batches_storage[b].total_amount
                /\ escrow_pdas_storage'[m].pending_batches =
                      escrow_pdas_storage[m].pending_batches - 1]_vars

\* A pending batch was settled successfully by a direct settle_batch call and
\* the merchant's balance went down to exactly zero.
C36_Witness ==
    /\ ret.op = "settle_batch" /\ ret.settle.result
    /\ LET b == SettledBid(ret.settle) IN
          /\ batches_storage[b].total_amount > 0
          /\ escrow_pdas_storage[batches_storage[b].merchant_id].total_balance = 0
          /\ escrow_pdas_storage[batches_storage[b].merchant_id].pending_batches = 0
\* The execute_intelligent_retry call of this step named a stored payment and
\* a stored strategy.
RetryOnKnown(p) ==
    /\ IsCall("execute_intelligent_retry")
    /\ ret'.pid = Some(p)
    /\ p \in DOMAIN payments_storage
    /\ ret'.out \subseteq DOMAIN recovery_strategies_storage

\* C37: the retry loop of the payment reliability agent is bounded to 3
\* attempts per payment: for every payment id execute_intelligent_retry returns
\* retry_initiated at most 3 times; the 4th and every later call stores the
\* payment as failed with reason max_retries_exceeded and returns
\* max_retries_exceeded; a payment failed this way stays failed (it never
\* returns to retrying); a call naming an unknown payment or an unknown
\* strategy changes nothing.
C37_RetryBoundedToThree ==
    /\ [](\A p \in ReliabilityPaymentIds : retry_initiated_count[p] <= MAX_RETRIES)
    /\ [][\A p \in ReliabilityPaymentIds :
             (RetryOnKnown(p) /\ retry_initiated_count[p] >= MAX_RETRIES) =>
                /\ ret'.result = "max_retries_exceeded"
                /\ payments_storage'[p].status = "failed"
                /\ payments_storage'[p].failure_reason = Some("max_retries_exceeded")]_vars
    /\ [][\A p \in DOMAIN payments_storage :
             (/\ payments_storage[p].status = "failed"
              /\ payments_storage[p].failure_reason = Some("max_retries_exceeded")) =>
                /\ p \in DOMAIN payments_storage'
                /\ payments_storage'[p].status = "failed"
                /\ payments_storage'[p].failure_reason = Some("max_retries_exceeded")]_vars
    /\ [][(/\ IsCall("execute_intelligent_retry")
           /\ \/ ret'.pid \cap DOMAIN payments_storage = {}
              \/ ret'.out \cap DOMAIN recovery_strategies_storage = {}) =>
             /\ ret'.result =
                   (IF ret'.pid \cap DOMAIN payments_storage = {}
                    THEN "payment_not_found" ELSE "invalid_strategy")
             /\ UNCHANGED reliability]_vars
\* C38: once emergency_pause() has returned true, the swap agent stays paused
\* until resume_operations() is called: every swap_to_usdc call in between
\* returns swap_paused and stores no swap request, whatever other calls run in
\* between, update_config with a config that does not name emergency_pause
\* included.
C38_PauseHeldUntilResume ==
    [][(pause_held /\ IsCall("swap_to_usdc")) =>
          /\ ret'.result = "swap_paused"
          /\ swap_requests_storage' = swap_requests_storage]_vars
====
